---- MODULE Spec2Model ----
(***************************************************************************)
(* Model of backend/generateResponses.py: the cluster engine               *)
(* (cluster_answers, auto_detect_num_clusters, calculate_silhouette_score),*)
(* the conversation handler (handle_conversation, weighted_random_choice)  *)
(* and the parallel query batch (prompt_characters, process_character).    *)
(*                                                                         *)
(* Numbers.  An embedding is a pair of integers.  A cosine similarity is   *)
(* kept exactly as a record [d, p] standing for d / sqrt(p) (p > 0), so    *)
(* that every comparison the code makes (>, >=) is decided by integer      *)
(* arithmetic.  Floating-point rounding is modelled where it changes a     *)
(* comparison (RoundingOf).                                                *)
(***************************************************************************)
EXTENDS Integers, Sequences, FiniteSets, TLC

\* ------------------------------------------------------------------ bounds

\* Largest number of respondent records handed to a clustering run.
MaxChars == 3

\* Largest num_clusters a caller requests (the smallest is -MaxNegK).
MaxReqK == 4

\* How far below zero a requested num_clusters goes (the request body may
\* hold any integer).
MaxNegK == 1

\* Python's None, and a present value x; Val gives x back.  (An optional
\* value is a sequence of length 0 or 1, so that it compares with any other.)
None == <<>>
Some(x) == <<x>>
Val(o) == o[1]

\* ------------------------------------------------------- texts, embeddings

\* Short answers a respondent can hold: empty, blank, and three real answers.
Answers == {"", " ", "hike", "walk", "work"}

\* Answers of the runs in which every respondent that answers gives the
\* answer "swim", whose embedding has an irrational norm.
RoundingAnswers == {"", " ", "swim"}

\* str.strip() on the answers of the model: the blank answer strips to "".
Strip(s) == IF s = " " THEN "" ELSE s

\* Eight answers whose embeddings spread over more than a half-plane, for
\* runs in which the center of a cluster keeps moving from round to round.
DriftAnswers == <<"west", "north", "back", "east", "mid", "up", "top", "right">>

DriftEmbeddings ==
    <<<<-3, 1>>, <<1, 6>>, <<-3, 0>>, <<5, 6>>, <<2, 3>>, <<-1, 4>>, <<0, 1>>, <<5, 0>>>>

\* The embedding provider: a fixed vector per text.  hike, walk and work
\* have norm 5, so that the similarity of two of them is the rational dot/25:
\*   hike.walk = 0.6   hike.work = -1   walk.work = -0.6
\* swim has norm sqrt(5) and is compared with swim only.
EmbeddingOf(text) ==
    CASE text = "hike" -> <<5, 0>>
      [] text = "walk" -> <<3, 4>>
      [] text = "work" -> <<-5, 0>>
      [] text = "swim" -> <<1, 2>>
      [] \E i \in DOMAIN DriftAnswers : text = DriftAnswers[i] ->
            DriftEmbeddings[CHOOSE i \in DOMAIN DriftAnswers : text = DriftAnswers[i]]
      [] OTHER         -> <<0, 0>>

get_embeddings(texts) == [i \in DOMAIN texts |-> EmbeddingOf(texts[i])]

\* ------------------------------------------------------- cosine similarity

Dot(v1, v2) == v1[1] * v2[1] + v1[2] * v2[2]

\* A similarity value: the float nearest to d / sqrt(p), moved by r units
\* in the last place (r < 0: below) by the rounding of the computation.
SimRounded(d, p, r) == [d |-> d, p |-> p, r |-> r]

\* The similarity value d / sqrt(p), computed without rounding error.
Sim(d, p) == SimRounded(d, p, 0)

\* The literal n/m (m > 0) as a similarity value.
Lit(n, m) == Sim(n, m * m)

\* d / sqrt(p) of x exceeds that of y.
ExactGT(x, y) ==
    IF x.d >= 0 /\ y.d < 0 THEN TRUE
    ELSE IF x.d < 0 /\ y.d >= 0 THEN FALSE
    ELSE IF x.d >= 0 THEN x.d * x.d * y.p > y.d * y.d * x.p
    ELSE x.d * x.d * y.p < y.d * y.d * x.p

\* x > y for similarity values.
SimGT(x, y) == ExactGT(x, y) \/ (~ExactGT(y, x) /\ x.r > y.r)

\* x >= y for similarity values.
SimGE(x, y) == ~SimGT(y, x)

\* The rounding error of lines 498-503 in double precision.  Vectors of
\* integers with an integer norm are computed exactly.  For [1.0, 2.0] with
\* itself, sqrt(5.0) * sqrt(5.0) is 5.000000000000001 and the quotient is
\* 0.9999999999999998, below 1.
RoundingOf(vec1, vec2) == IF vec1 = <<1, 2>> /\ vec2 = <<1, 2>> THEN -1 ELSE 0

\* cosine_similarity dividing by twice the product of the magnitudes.
cosine_similarity_Halved(vec1, vec2) ==
    IF Dot(vec1, vec1) = 0 \/ Dot(vec2, vec2) = 0
    THEN Sim(0, 1)
    ELSE Sim(Dot(vec1, vec2), 4 * Dot(vec1, vec1) * Dot(vec2, vec2))

cosine_similarity(vec1, vec2) ==
    LET dot_product == Dot(vec1, vec2)
        magnitude1sq == Dot(vec1, vec1)
        magnitude2sq == Dot(vec2, vec2)
    IN  IF magnitude1sq = 0 \/ magnitude2sq = 0
        THEN Sim(0, 1)
        ELSE SimRounded(dot_product, magnitude1sq * magnitude2sq,
                        RoundingOf(vec1, vec2))

\* ---------------------------------------------------------- sequence tools

Max(a, b) == IF a >= b THEN a ELSE b
Min(a, b) == IF a <= b THEN a ELSE b

\* The first n elements of s (s[:n]).
Take(s, n) == SubSeq(s, 1, Min(n, Len(s)))

\* random.sample(population, k): the ordered selections of k distinct
\* positions of the population; empty when k is out of range (ValueError).
Samples(population, k) ==
    IF k < 0 \/ k > Len(population) THEN {}
    ELSE {s \in [1..k -> 1..Len(population)] :
            \A i, j \in 1..k : i # j => s[i] # s[j]}

Range(s) == {s[i] : i \in DOMAIN s}

\* ----------------------------------------------------------- cluster engine
\* chars is the list characters_data (records with the fields id,
\* short_answer, passion, embedding, temp_cluster; the last two are None
\* until the run attaches them), valid is the list of the positions of the
\* valid records in chars (valid_chars holds references to the same dicts),
\* centers is the list of positions of the records that are the centers.

\* A record of characters_data is kept when its stripped answer is non-empty.
IsValid(c) == Strip(c.short_answer) # ""

\* Lines 671-677: the scan over the centers for one respondent, from center
\* i on, with the running max_similarity and best_cluster (0-based).
RECURSIVE NearestFrom(_, _, _, _, _, _)
NearestFrom(chars, p, centers, i, max_similarity, best_cluster) ==
    IF i > Len(centers)
    THEN [max_similarity |-> max_similarity, best_cluster |-> best_cluster]
    ELSE LET similarity ==
                 cosine_similarity(Val(chars[p].embedding), Val(chars[centers[i]].embedding))
         IN  IF SimGT(similarity, max_similarity)
             THEN NearestFrom(chars, p, centers, i + 1, similarity, i - 1)
             ELSE NearestFrom(chars, p, centers, i + 1, max_similarity, best_cluster)

Nearest(chars, p, centers) == NearestFrom(chars, p, centers, 1, Lit(-1, 1), 0)

\* Lines 679-683: the cluster index given to respondent p, or -1 (outlier).
AssignOne(chars, p, centers, threshold) ==
    LET n == Nearest(chars, p, centers)
    IN  IF SimGE(n.max_similarity, threshold) THEN n.best_cluster ELSE -1

\* Lines 670-683: the assignment step over all valid respondents.
AssignAll(chars, valid, centers, threshold) ==
    [p \in DOMAIN chars |->
        IF p \in Range(valid)
        THEN [chars[p] EXCEPT !.temp_cluster = Some(AssignOne(chars, p, centers, threshold))]
        ELSE chars[p]]

\* [c for c in valid_chars if c.get('temp_cluster') == i]
ClusterMembers(chars, valid, i) ==
    SelectSeq(valid, LAMBDA p : chars[p].temp_cluster = Some(i))

\* Lines 690-693: the mean embedding of the members, kept as the sum of the
\* embeddings: the mean is the sum divided by len(members) > 0, and a cosine
\* similarity does not change when a vector is divided by a positive number.
RECURSIVE SumEmbedding(_, _, _)
SumEmbedding(chars, members, j) ==
    IF j > Len(members) THEN <<0, 0>>
    ELSE LET e == Val(chars[members[j]].embedding)
             r == SumEmbedding(chars, members, j + 1)
         IN  <<e[1] + r[1], e[2] + r[2]>>

MeanEmbedding(chars, members) == SumEmbedding(chars, members, 1)

\* Lines 696-702: the member closest to the mean; the first one wins a tie.
RECURSIVE ClosestFrom(_, _, _, _, _, _)
ClosestFrom(chars, members, mean_embedding, j, best_sim, best_char) ==
    IF j > Len(members) THEN best_char
    ELSE LET sim == cosine_similarity(Val(chars[members[j]].embedding), mean_embedding)
         IN  IF SimGT(sim, best_sim)
             THEN ClosestFrom(chars, members, mean_embedding, j + 1, sim, Some(members[j]))
             ELSE ClosestFrom(chars, members, mean_embedding, j + 1, best_sim, best_char)

ClosestToMean(chars, members) ==
    ClosestFrom(chars, members, MeanEmbedding(chars, members), 1, Lit(-1, 1), None)

\* The center update giving an index without members the first valid
\* respondent as its center.
UpdateCenters_ResetEmpty(chars, valid, centers) ==
    [i \in DOMAIN centers |->
        LET cluster_members == ClusterMembers(chars, valid, i - 1)
        IN  IF cluster_members = <<>> THEN valid[1]
            ELSE Val(ClosestToMean(chars, cluster_members))]

\* Lines 686-705: the center update of one round.
UpdateCenters(chars, valid, centers) ==
    [i \in DOMAIN centers |->
        LET cluster_members == ClusterMembers(chars, valid, i - 1)
            best_char == IF cluster_members = <<>> THEN None
                         ELSE ClosestToMean(chars, cluster_members)
        IN  IF best_char # None THEN Val(best_char) ELSE centers[i]]

\* A rational n/d (d > 0), for averages.
Rat(n, d) == [n |-> n, d |-> d]

RECURSIVE SumPassion(_, _, _)
SumPassion(chars, members, j) ==
    IF j > Len(members) THEN 0
    ELSE chars[members[j]].passion + SumPassion(chars, members, j + 1)

\* The summary with the answer of the first center as representative_answer,
\* whatever the index.
ClusterSummary_FirstCenter(chars, centers, i, cluster_members) ==
    [id                    |-> i,
     representative_answer |-> chars[centers[1]].short_answer,
     character_ids         |-> [j \in DOMAIN cluster_members |-> chars[cluster_members[j]].id],
     count                 |-> Len(cluster_members),
     avg_passion           |-> Rat(SumPassion(chars, cluster_members, 1), Len(cluster_members)),
     sample_responses      |-> [j \in DOMAIN Take(cluster_members, 3) |->
                                   chars[cluster_members[j]].short_answer]]

\* Lines 712-719: the summary of cluster index i with its (non-empty) members.
ClusterSummary(chars, centers, i, cluster_members) ==
    [id                    |-> i,
     representative_answer |-> chars[centers[i + 1]].short_answer,
     character_ids         |-> [j \in DOMAIN cluster_members |-> chars[cluster_members[j]].id],
     count                 |-> Len(cluster_members),
     avg_passion           |-> Rat(SumPassion(chars, cluster_members, 1), Len(cluster_members)),
     sample_responses      |-> [j \in DOMAIN Take(cluster_members, 3) |->
                                   chars[cluster_members[j]].short_answer]]

\* The loop of lines 709-719 without the test of line 711: an index without
\* a member gets a summary too.
RECURSIVE BuildClusters_KeepEmpty(_, _, _, _, _)
BuildClusters_KeepEmpty(chars, valid, centers, num, i) ==
    IF i >= num THEN <<>>
    ELSE <<ClusterSummary(chars, centers, i, ClusterMembers(chars, valid, i))>>
         \o BuildClusters_KeepEmpty(chars, valid, centers, num, i + 1)

\* Lines 708-719: the summaries of the cluster indices i .. num_clusters-1
\* that have a member, in index order.
RECURSIVE BuildClusters(_, _, _, _, _)
BuildClusters(chars, valid, centers, num, i) ==
    IF i >= num THEN <<>>
    ELSE LET cluster_members == ClusterMembers(chars, valid, i)
         IN  (IF cluster_members # <<>>
              THEN <<ClusterSummary(chars, centers, i, cluster_members)>>
              ELSE <<>>)
             \o BuildClusters(chars, valid, centers, num, i + 1)

\* Lines 722-727: the outlier summary.
BuildOutliers(chars, valid) ==
    LET outliers == ClusterMembers(chars, valid, -1)
    IN  [character_ids |-> [j \in DOMAIN outliers |-> chars[outliers[j]].id],
         count         |-> Len(outliers),
         answers       |-> [j \in DOMAIN outliers |-> chars[outliers[j]].short_answer]]

\* The insertion of an unstable sort: x goes before the clusters of its count.
RECURSIVE InsertByCount_BeforeEqual(_, _)
InsertByCount_BeforeEqual(sorted, x) ==
    IF sorted = <<>> THEN <<x>>
    ELSE IF Head(sorted).count > x.count
         THEN <<Head(sorted)>> \o InsertByCount_BeforeEqual(Tail(sorted), x)
         ELSE <<x>> \o sorted

\* sorted(clusters, key=lambda x: x['count'], reverse=True): a stable sort,
\* so clusters of equal count keep the order they had.
RECURSIVE InsertByCount(_, _)
InsertByCount(sorted, x) ==
    IF sorted = <<>> THEN <<x>>
    ELSE IF Head(sorted).count >= x.count
         THEN <<Head(sorted)>> \o InsertByCount(Tail(sorted), x)
         ELSE <<x>> \o sorted

RECURSIVE SortByCountDesc(_, _)
SortByCountDesc(clusters, acc) ==
    IF clusters = <<>> THEN acc
    ELSE SortByCountDesc(Tail(clusters), InsertByCount(acc, Head(clusters)))

\* Lines 729-733: the value cluster_answers returns.
BuildResult(chars, valid, centers, num) ==
    [clusters     |-> SortByCountDesc(BuildClusters(chars, valid, centers, num, 0), <<>>),
     outliers     |-> BuildOutliers(chars, valid),
     num_clusters |-> num]

\* Line 645: the value returned when no record is valid.
EmptyResult ==
    [clusters     |-> <<>>,
     outliers     |-> [character_ids |-> <<>>, count |-> 0, answers |-> <<>>],
     num_clusters |-> 0]

\* The clamp with <= in place of <: a requested K = n is replaced too.
AdjustNumClusters_AtOrAbove(n, requested) ==
    IF n <= requested THEN Max(1, n \div 2) ELSE requested

\* Lines 659-662: the clamp of a requested num_clusters against n valid records.
AdjustNumClusters(n, requested) ==
    IF n < requested THEN Max(1, n \div 2) ELSE requested

\* ---------------------------------------------------------------- rationals

RECURSIVE GCD(_, _)
GCD(a, b) == IF b = 0 THEN a ELSE GCD(b, a % b)

Abs(x) == IF x < 0 THEN 0 - x ELSE x

\* n/d in lowest terms with a positive denominator (d # 0).
Norm(n, d) ==
    LET g == GCD(Abs(n), Abs(d))
        sgn == IF d < 0 THEN 0 - 1 ELSE 1
    IN  Rat(sgn * (n \div g), sgn * (d \div g))

RatAdd(x, y) == Norm(x.n * y.d + y.n * x.d, x.d * y.d)
RatSub(x, y) == Norm(x.n * y.d - y.n * x.d, x.d * y.d)
RatDiv(x, y) == Norm(x.n * y.d, x.d * y.n)
RatGT(x, y) == x.n * y.d > y.n * x.d
RatMax(x, y) == IF RatGT(y, x) THEN y ELSE x
RatMin(x, y) == IF RatGT(x, y) THEN y ELSE x

\* The integer square root of a perfect square.
ISqrt(p) == CHOOSE r \in 0..p : r * r = p

\* A similarity of two embeddings as a rational (the product of their norms
\* is an integer).  The rounding r is left out: it moves 1 - similarity by
\* 2.2e-16, which changes no score of the runs of the model (respondents of
\* rounded similarity all hold the same answer, so a = b, score 0).
SimAsRat(x) == Norm(x.d, ISqrt(x.p))

\* ------------------------------------------------ calculate_silhouette_score

\* 1 - cosine_similarity(embeddings[i], embeddings[j])
Dissimilarity(embeddings, i, j) ==
    RatSub(Rat(1, 1), SimAsRat(cosine_similarity(embeddings[i], embeddings[j])))

\* sum(1 - cosine_similarity(embeddings[i], embeddings[j]) for j in points) / len(points)
RECURSIVE SumDissimilarity(_, _, _, _)
SumDissimilarity(embeddings, i, points, k) ==
    IF k > Len(points) THEN Rat(0, 1)
    ELSE RatAdd(Dissimilarity(embeddings, i, points[k]),
                SumDissimilarity(embeddings, i, points, k + 1))

AvgDissimilarity(embeddings, i, points) ==
    RatDiv(SumDissimilarity(embeddings, i, points, 1), Rat(Len(points), 1))

\* min of a non-empty set of rationals
RECURSIVE RatMinOf(_)
RatMinOf(S) ==
    LET x == CHOOSE y \in S : TRUE
    IN  IF S = {x} THEN x ELSE RatMin(x, RatMinOf(S \ {x}))

\* The silhouette of point i without the skip of line 530: a point alone in
\* its cluster is scored with a = 0.
SilhouetteOf_ScoreSingletons(cluster_assignments, embeddings, i) ==
    LET n == Len(cluster_assignments)
        positions == [j \in 1..n |-> j]
        same_cluster == SelectSeq(positions, LAMBDA j :
                            cluster_assignments[j] = cluster_assignments[i] /\ i # j)
        other_clusters == {cluster_assignments[j] : j \in 1..n} \
                              {cluster_assignments[i], -1}
        a == IF same_cluster = <<>> THEN Rat(0, 1)
             ELSE AvgDissimilarity(embeddings, i, same_cluster)
        b_values == {AvgDissimilarity(embeddings, i,
                        SelectSeq(positions, LAMBDA j : cluster_assignments[j] = c))
                     : c \in other_clusters}
        b == RatMinOf(b_values)
    IN  IF cluster_assignments[i] = -1 THEN None
        ELSE IF other_clusters = {} THEN None
        ELSE IF RatGT(RatMax(a, b), Rat(0, 1))
             THEN Some(RatDiv(RatSub(b, a), RatMax(a, b)))
             ELSE Some(Rat(0, 1))

\* Lines 523-548: the silhouette of point i as Some(score), or None when the
\* point is skipped (an outlier, alone in its cluster, or no other cluster).
SilhouetteOf(cluster_assignments, embeddings, i) ==
    LET n == Len(cluster_assignments)
        positions == [j \in 1..n |-> j]
        same_cluster == SelectSeq(positions, LAMBDA j :
                            cluster_assignments[j] = cluster_assignments[i] /\ i # j)
        other_clusters == {cluster_assignments[j] : j \in 1..n} \
                              {cluster_assignments[i], -1}
        a == AvgDissimilarity(embeddings, i, same_cluster)
        b_values == {AvgDissimilarity(embeddings, i,
                        SelectSeq(positions, LAMBDA j : cluster_assignments[j] = c))
                     : c \in other_clusters}
        b == RatMinOf(b_values)
    IN  IF cluster_assignments[i] = -1 THEN None
        ELSE IF same_cluster = <<>> THEN None
        ELSE IF other_clusters = {} THEN None
        ELSE IF RatGT(RatMax(a, b), Rat(0, 1))
             THEN Some(RatDiv(RatSub(b, a), RatMax(a, b)))
             ELSE Some(Rat(0, 1))

RECURSIVE SumScores(_, _)
SumScores(scores, k) ==
    IF k > Len(scores) THEN Rat(0, 1)
    ELSE RatAdd(Val(scores[k]), SumScores(scores, k + 1))

\* Lines 505-550.  characters_data enters by its length only.
calculate_silhouette_score(n, cluster_assignments, embeddings) ==
    IF n <= 1 THEN Rat(0, 1)
    ELSE LET all == [i \in 1..n |-> SilhouetteOf(cluster_assignments, embeddings, i)]
             silhouette_scores == SelectSeq(all, LAMBDA sc : sc # None)
         IN  IF silhouette_scores # <<>>
             THEN RatDiv(SumScores(silhouette_scores, 1), Rat(Len(silhouette_scores), 1))
             ELSE Rat(0, 1)

\* ------------------------------------------------- auto_detect_num_clusters

\* Default bounds of the search (line 552) and the cap of line 572.
DefaultMinClusters == 2
DefaultMaxClusters == 8
MaxClustersCap == 10

\* Rounds of a trial clustering (line 585) and its fixed threshold (line 595).
TrialRounds == 3
TrialThreshold == Lit(3, 5)

\* The early return without its floor of 1.
AutoEarlyReturn_NoFloor(n) == n \div 2

\* Line 569: the value returned without a search (n < min_clusters).
AutoEarlyReturn(n) == Max(1, n \div 2)

\* The clamp without lines 573-574: max_clusters is not raised to min_clusters.
ClampMaxClusters_NoRaise(n, min_clusters, max_clusters) ==
    Min(Min(max_clusters, n \div 3), MaxClustersCap)

\* Lines 572-574: the clamp of max_clusters.
ClampMaxClusters(n, min_clusters, max_clusters) ==
    LET m == Min(Min(max_clusters, n \div 3), MaxClustersCap)
    IN  IF m < min_clusters THEN min_clusters ELSE m

\* Lines 605-606: max(cluster_members, key=similarity to the mean); the first
\* of the members with the largest key.
RECURSIVE MaxByMeanFrom(_, _, _, _, _)
MaxByMeanFrom(chars, members, mean_embedding, j, best) ==
    IF j > Len(members) THEN best
    ELSE IF SimGT(cosine_similarity(Val(chars[members[j]].embedding), mean_embedding),
                  cosine_similarity(Val(chars[best].embedding), mean_embedding))
         THEN MaxByMeanFrom(chars, members, mean_embedding, j + 1, members[j])
         ELSE MaxByMeanFrom(chars, members, mean_embedding, j + 1, best)

\* Lines 598-607: the center update of a trial round.
TrialUpdateCenters(chars, valid, centers) ==
    [i \in DOMAIN centers |->
        LET cluster_members == ClusterMembers(chars, valid, i - 1)
        IN  IF cluster_members # <<>>
            THEN MaxByMeanFrom(chars, cluster_members,
                               MeanEmbedding(chars, cluster_members), 2, cluster_members[1])
            ELSE centers[i]]

\* ------------------------------------------- cluster_answers as one call
\* The same code as a function of its arguments and of its random draws, for
\* the handlers that call it: trial_sample[k] is the draw of line 583 for the
\* trial with k centers, final_sample the draw of line 665.

\* F(v), with v evaluated once.
Apply(F(_), v) == CHOOSE r \in {F(x) : x \in {v}} : TRUE

\* Refinement rounds of the final clustering (line 668).
FinalRounds == 5

\* Lines 668-705: one refinement round: the records and centers after it.
RoundStep(chars, valid, centers, threshold) ==
    Apply(LAMBDA assigned :
              [chars |-> assigned, centers |-> UpdateCenters(assigned, valid, centers)],
          AssignAll(chars, valid, centers, threshold))

\* Lines 585-607: one round of a trial clustering.
TrialRoundStep(chars, valid, centers) ==
    Apply(LAMBDA assigned :
              [chars |-> assigned, centers |-> TrialUpdateCenters(assigned, valid, centers)],
          AssignAll(chars, valid, centers, TrialThreshold))

RECURSIVE FinalRoundsFrom(_, _, _, _)
FinalRoundsFrom(st, valid, threshold, r) ==
    IF r = 0 THEN st
    ELSE Apply(LAMBDA nxt : FinalRoundsFrom(nxt, valid, threshold, r - 1),
               RoundStep(st.chars, valid, st.centers, threshold))

RECURSIVE TrialRoundsFrom(_, _, _)
TrialRoundsFrom(st, valid, r) ==
    IF r = 0 THEN st
    ELSE Apply(LAMBDA nxt : TrialRoundsFrom(nxt, valid, r - 1),
               TrialRoundStep(st.chars, valid, st.centers))

\* Lines 609-611: the score of the records as a trial left them.
TrialScore(chars, valid) ==
    calculate_silhouette_score(
        Len(valid),
        [i \in DOMAIN valid |-> Val(chars[valid[i]].temp_cluster)],
        [i \in DOMAIN valid |-> Val(chars[valid[i]].embedding)])

\* Lines 581-617: the search from k on: the records, best_k and best_score
\* after the trials k .. max_k.
RECURSIVE AutoSearchFrom(_, _, _, _, _)
AutoSearchFrom(st, valid, k, max_k, trial_sample) ==
    IF k > max_k THEN st
    ELSE Apply(LAMBDA trial :
                   Apply(LAMBDA score :
                             AutoSearchFrom(
                                 IF RatGT(score, st.best_score)
                                 THEN [chars |-> trial.chars, best_k |-> k,
                                       best_score |-> score]
                                 ELSE [chars |-> trial.chars, best_k |-> st.best_k,
                                       best_score |-> st.best_score],
                                 valid, k + 1, max_k, trial_sample),
                         TrialScore(trial.chars, valid)),
               TrialRoundsFrom([chars |-> st.chars,
                                centers |-> [i \in 1..k |-> valid[trial_sample[k][i]]]],
                               valid, TrialRounds))

\* Lines 552-620: auto_detect_num_clusters: the records as it leaves them and
\* the k it returns.
AutoDetect(chars, valid, min_k, max_k, trial_sample) ==
    IF Len(valid) < min_k
    THEN [chars |-> chars, best_k |-> AutoEarlyReturn(Len(valid))]
    ELSE AutoSearchFrom([chars |-> chars, best_k |-> min_k, best_score |-> Rat(-1, 1)],
                        valid, min_k, ClampMaxClusters(Len(valid), min_k, max_k),
                        trial_sample)

\* The k values auto_detect_num_clusters tries on n records (default bounds).
TrialKs(n) ==
    IF n < DefaultMinClusters THEN {}
    ELSE DefaultMinClusters..ClampMaxClusters(n, DefaultMinClusters, DefaultMaxClusters)

\* The draws of the trials on n records: one sample of k positions per k.
TrialSamples(n) ==
    {f \in [TrialKs(n) -> UNION {[1..k -> 1..n] : k \in TrialKs(n)}] :
        \A k \in TrialKs(n) :
            /\ DOMAIN f[k] = 1..k
            /\ \A i, j \in 1..k : i # j => f[k][i] # f[k][j]}

\* Line 642: the positions of the valid records.
ValidPositions(chars) ==
    SelectSeq([i \in 1..Len(chars) |-> i], LAMBDA p : IsValid(chars[p]))

\* Lines 648-653: the embeddings of the valid records' answers, attached.
AttachEmbeddings(chars, valid) ==
    LET short_answers == [i \in DOMAIN valid |-> chars[valid[i]].short_answer]
        embeddings == get_embeddings(short_answers)
    IN  [p \in DOMAIN chars |->
            IF \E i \in DOMAIN valid : valid[i] = p
            THEN [chars[p] EXCEPT !.embedding =
                    Some(embeddings[CHOOSE i \in DOMAIN valid : valid[i] = p])]
            ELSE chars[p]]

\* Lines 655-662: the records and the K after the choice of K.
ChosenK(chars, valid, requested, trial_sample) ==
    IF requested = None
    THEN AutoDetect(chars, valid, DefaultMinClusters, DefaultMaxClusters, trial_sample)
    ELSE [chars |-> chars, best_k |-> AdjustNumClusters(Len(valid), Val(requested))]

\* Lines 665-733: the returned value for the draw final_sample of the centers.
FinalOutcome(chosen, valid, threshold, final_sample) ==
    Apply(LAMBDA st :
              [raised |-> FALSE,
               result |-> BuildResult(st.chars, valid, st.centers, chosen.best_k)],
          FinalRoundsFrom([chars   |-> chosen.chars,
                           centers |-> [i \in DOMAIN final_sample |->
                                           valid[final_sample[i]]]],
                          valid, threshold, FinalRounds))

\* Lines 622-733: what a call of cluster_answers can end with, over all
\* random draws: a returned result, or raised (ValueError of random.sample).
cluster_answers(chars, requested, threshold) ==
    LET valid == ValidPositions(chars)
    IN  IF valid = <<>>
        THEN {[raised |-> FALSE, result |-> EmptyResult]}
        ELSE UNION {
               IF Samples(valid, chosen.best_k) = {}
               THEN {[raised |-> TRUE, result |-> EmptyResult]}
               ELSE {FinalOutcome(chosen, valid, threshold, fs) :
                       fs \in Samples(valid, chosen.best_k)}
               : chosen \in
                   {ChosenK(AttachEmbeddings(chars, valid), valid, requested, ts)
                      : ts \in IF requested = None THEN TrialSamples(Len(valid))
                                                  ELSE {<<>>}}}

\* ------------------------------------------------------------------- state

VARIABLES
    characters_data,      \* the list handed to cluster_answers
    num_clusters_arg,     \* the num_clusters argument: None or Some(k)
    similarity_threshold, \* the similarity_threshold argument
    pc,                   \* position of the clustering run
    valid_chars,          \* positions in characters_data of the valid records
    num_clusters,         \* the K in use
    cluster_centers,      \* positions in characters_data of the centers
    iteration,            \* refinement rounds completed
    cluster_results,      \* the returned value: None or Some(result)
    min_clusters,         \* auto_detect_num_clusters: its min_clusters
    max_clusters,         \* auto_detect_num_clusters: its max_clusters (clamped)
    auto_k,               \* auto_detect_num_clusters: the k of the next trial
    best_k,               \* auto_detect_num_clusters: best k so far
    best_score,           \* auto_detect_num_clusters: best score so far
    trial_centers,        \* auto_detect_num_clusters: centers of the trial
    trial_iteration,      \* auto_detect_num_clusters: trial rounds completed
    trial_scores,         \* auto_detect_num_clusters: the k and score of each trial (line 613)
    store,                \* Redis character:<id> hashes: id -> None or Some(record)
    cluster_store,        \* Redis cluster:<id> hashes: the set of stored summaries
    outlier_store,        \* Redis cluster:outliers hash: None or Some(summary)
    hpc,                  \* position of the request handler
    character_ids,        \* handle_conversation: the requested ids
    participants,         \* handle_conversation: its characters_data list
    conversation_log,     \* handle_conversation: the transcript so far
    last_speaker_id,      \* handle_conversation: None or Some(id)
    comment_count,        \* handle_conversation: turns counted by the loop
    reflect_i,            \* handle_conversation: position in the reflection loop
    conversations,        \* Redis conversation:<n> hashes, in order of creation
    num,                  \* prompt_characters: the number of respondents queried
    tasks,                \* prompt_characters: the worker task of each id
    total,                \* prompt_characters: 'total' of its result, None before
    embedding_calls,      \* number of requests sent to the embedding provider
    response,             \* the handler's HTTP response: status 0 while it runs
    chat_requests         \* the requests that append to a respondent's chat, by position

autoVars == <<min_clusters, max_clusters, auto_k, best_k, best_score,
              trial_centers, trial_iteration, trial_scores>>

clusterVars == <<characters_data, num_clusters_arg, similarity_threshold, pc,
                 valid_chars, num_clusters, cluster_centers, iteration,
                 cluster_results, autoVars>>

storeVars == <<store, cluster_store, outlier_store, conversations>>

convVars == <<character_ids, participants, conversation_log, last_speaker_id,
              comment_count, reflect_i>>

batchVars == <<num, tasks, total>>

chatVars == <<chat_requests>>

vars == <<clusterVars, storeVars, hpc, convVars, batchVars, response, embedding_calls,
          chatVars>>

\* The default similarity_threshold (line 622), and the ones a caller may pass.
DefaultThreshold == Lit(3, 5)
Thresholds == {DefaultThreshold, Lit(-1, 1), Lit(1, 1)}

\* A handler's response: the HTTP status, and the error text of its body.
Response(status, error) == [status |-> status, error |-> error]
NoResponse == Response(0, "")

\* The ids a request can name, and the ids the character files can describe
\* (the last id is one they never describe).
StoreIds == 1..MaxChars
StoredIds == 1..(MaxChars - 1)

\* A record as get_all_characters_data (or a test) builds it.
CharRecord(id, answer, passion) ==
    [id |-> id, short_answer |-> answer, passion |-> passion,
     embedding |-> None, temp_cluster |-> None]

\* Passion (in tenths) of the records of a clustering run.
PassionOfId(id) == (3 * id) % 11

CharLists ==
    UNION {{[i \in 1..n |-> CharRecord(i, a[i], PassionOfId(i))]
               : a \in [1..n -> Answers] \cup [1..n -> RoundingAnswers]}
           : n \in 0..MaxChars}

RequestedK == {None} \cup {Some(k) : k \in (0 - MaxNegK)..MaxReqK}

\* Lines 641-649: the requests a call of cluster_answers sends to the
\* embedding provider: one, unless no record is valid.
EmbeddingRequests(chars) == IF ValidPositions(chars) = <<>> THEN 0 ELSE 1

\* ----------------------------------------------------------- cluster_answers

\* FilterValid without the early return for an empty list of valid records.
FilterValid_NoEarlyReturn ==
    /\ pc = "filter"
    /\ valid_chars' = ValidPositions(characters_data)
    /\ characters_data' = AttachEmbeddings(characters_data, ValidPositions(characters_data))
    /\ embedding_calls' = embedding_calls + 1
    /\ pc' = "choose_k"
    /\ UNCHANGED <<num_clusters_arg, similarity_threshold, num_clusters,
                   cluster_centers, iteration, cluster_results, autoVars>>
    /\ UNCHANGED <<storeVars, hpc, convVars, chatVars, batchVars, response>>

\* Lines 641-653: filter the valid records, return at once when there is
\* none, otherwise attach the embeddings.
FilterValid ==
    /\ pc = "filter"
    /\ LET valid == ValidPositions(characters_data)
       IN  /\ valid_chars' = valid
           /\ IF valid = <<>>
              THEN /\ cluster_results' = Some(EmptyResult)
                   /\ pc' = "done"
                   /\ UNCHANGED <<characters_data, embedding_calls>>
              ELSE /\ characters_data' = AttachEmbeddings(characters_data, valid)
                   /\ embedding_calls' = embedding_calls + 1
                   /\ pc' = "choose_k"
                   /\ UNCHANGED cluster_results
    /\ UNCHANGED <<num_clusters_arg, similarity_threshold, num_clusters,
                   cluster_centers, iteration, autoVars>>
    /\ UNCHANGED <<storeVars, hpc, convVars, chatVars, batchVars, response>>

\* Lines 658-662: an explicit num_clusters is clamped.
ChooseRequestedK ==
    /\ pc = "choose_k"
    /\ num_clusters_arg # None
    /\ num_clusters' = AdjustNumClusters(Len(valid_chars), Val(num_clusters_arg))
    /\ pc' = "sample"
    /\ UNCHANGED <<characters_data, num_clusters_arg, similarity_threshold,
                   valid_chars, cluster_centers, iteration, cluster_results, autoVars>>
    /\ UNCHANGED <<storeVars, hpc, convVars, chatVars, batchVars, response, embedding_calls>>

\* Lines 656-657 with 567-579: num_clusters is None, auto_detect_num_clusters
\* starts: with fewer than min_clusters records it returns at once,
\* otherwise it clamps max_clusters and starts the search at min_clusters.
AutoStart ==
    /\ pc = "choose_k"
    /\ num_clusters_arg = None
    /\ LET n == Len(valid_chars)
       IN  IF n < min_clusters
           THEN /\ num_clusters' = AutoEarlyReturn(n)
                /\ pc' = "sample"
                /\ UNCHANGED autoVars
           ELSE /\ max_clusters' = ClampMaxClusters(n, min_clusters, max_clusters)
                /\ best_score' = Rat(-1, 1)
                /\ best_k' = min_clusters
                /\ auto_k' = min_clusters
                /\ pc' = "auto"
                /\ trial_scores' = <<>>
                /\ UNCHANGED <<num_clusters, min_clusters, trial_centers, trial_iteration>>
    /\ UNCHANGED <<characters_data, num_clusters_arg, similarity_threshold,
                   valid_chars, cluster_centers, iteration, cluster_results>>
    /\ UNCHANGED <<storeVars, hpc, convVars, chatVars, batchVars, response, embedding_calls>>

\* Line 583: the trial for k = auto_k starts: random.sample(characters_data, k).
AutoSample ==
    /\ pc = "auto"
    /\ auto_k <= max_clusters
    /\ \E s \in Samples(valid_chars, auto_k) :
          trial_centers' = [i \in DOMAIN s |-> valid_chars[s[i]]]
    /\ trial_iteration' = 0
    /\ pc' = "trial"
    /\ UNCHANGED <<characters_data, num_clusters_arg, similarity_threshold,
                   valid_chars, num_clusters, cluster_centers, iteration,
                   cluster_results, min_clusters, max_clusters, auto_k, best_k,
                   best_score, trial_scores>>
    /\ UNCHANGED <<storeVars, hpc, convVars, chatVars, batchVars, response, embedding_calls>>

\* Lines 585-607: one round of the trial clustering (it writes temp_cluster
\* into the records).
AutoRound ==
    /\ pc = "trial"
    /\ trial_iteration < TrialRounds
    /\ LET st == TrialRoundStep(characters_data, valid_chars, trial_centers)
       IN  /\ characters_data' = st.chars
           /\ trial_centers' = st.centers
    /\ trial_iteration' = trial_iteration + 1
    /\ UNCHANGED <<num_clusters_arg, similarity_threshold, pc, valid_chars,
                   num_clusters, cluster_centers, iteration, cluster_results,
                   min_clusters, max_clusters, auto_k, best_k, best_score,
                   trial_scores>>
    /\ UNCHANGED <<storeVars, hpc, convVars, chatVars, batchVars, response, embedding_calls>>

\* Lines 615-617 with a test that also passes on an equal score.
KeepBest_OnEqual(score) ==
    IF ~RatGT(best_score, score)
    THEN best_score' = score /\ best_k' = auto_k
    ELSE UNCHANGED <<best_score, best_k>>

\* Lines 615-617: if score > best_score, the score and k are kept.
KeepBest(score) ==
    IF RatGT(score, best_score)
    THEN best_score' = score /\ best_k' = auto_k
    ELSE UNCHANGED <<best_score, best_k>>

\* Lines 609-617: score the trial, report it (line 613) and keep k when its
\* score is strictly better.
AutoScore ==
    /\ pc = "trial"
    /\ trial_iteration = TrialRounds
    /\ LET score == TrialScore(characters_data, valid_chars)
       IN  /\ trial_scores' = Append(trial_scores, [k |-> auto_k, score |-> score])
           /\ KeepBest(score)
    /\ auto_k' = auto_k + 1
    /\ pc' = "auto"
    /\ UNCHANGED <<characters_data, num_clusters_arg, similarity_threshold,
                   valid_chars, num_clusters, cluster_centers, iteration,
                   cluster_results, min_clusters, max_clusters, trial_centers,
                   trial_iteration>>
    /\ UNCHANGED <<storeVars, hpc, convVars, chatVars, batchVars, response, embedding_calls>>

\* Line 620: the search is over, best_k is returned to cluster_answers.
AutoReturn ==
    /\ pc = "auto"
    /\ auto_k > max_clusters
    /\ num_clusters' = best_k
    /\ pc' = "sample"
    /\ UNCHANGED <<characters_data, num_clusters_arg, similarity_threshold,
                   valid_chars, cluster_centers, iteration, cluster_results, autoVars>>
    /\ UNCHANGED <<storeVars, hpc, convVars, chatVars, batchVars, response, embedding_calls>>

\* Line 665: random.sample(valid_chars, num_clusters); ValueError when
\* num_clusters is negative or larger than the population.
SampleCenters ==
    /\ pc = "sample"
    /\ \E s \in Samples(valid_chars, num_clusters) :
          /\ cluster_centers' = [i \in DOMAIN s |-> valid_chars[s[i]]]
          /\ pc' = "round"
    /\ iteration' = 0
    /\ UNCHANGED <<characters_data, num_clusters_arg, similarity_threshold,
                   valid_chars, num_clusters, cluster_results, autoVars>>
    /\ UNCHANGED <<storeVars, hpc, convVars, chatVars, batchVars, response, embedding_calls>>

SampleRaises ==
    /\ pc = "sample"
    /\ Samples(valid_chars, num_clusters) = {}
    /\ pc' = "raised"
    /\ UNCHANGED <<characters_data, num_clusters_arg, similarity_threshold,
                   valid_chars, num_clusters, cluster_centers, iteration,
                   cluster_results, autoVars>>
    /\ UNCHANGED <<storeVars, hpc, convVars, chatVars, batchVars, response, embedding_calls>>

\* Lines 668-705: one refinement round: assignment, then center update.
Round ==
    /\ pc = "round"
    /\ iteration < FinalRounds
    /\ LET st == RoundStep(characters_data, valid_chars, cluster_centers,
                            similarity_threshold)
       IN  /\ characters_data' = st.chars
           /\ cluster_centers' = st.centers
    /\ iteration' = iteration + 1
    /\ UNCHANGED <<num_clusters_arg, similarity_threshold, pc, valid_chars,
                   num_clusters, cluster_results, autoVars>>
    /\ UNCHANGED <<storeVars, hpc, convVars, chatVars, batchVars, response, embedding_calls>>

\* Lines 707-733: build and return the result.
Build ==
    /\ pc = "round"
    /\ iteration = FinalRounds
    /\ cluster_results' = Some(BuildResult(characters_data, valid_chars,
                                           cluster_centers, num_clusters))
    /\ pc' = "done"
    /\ UNCHANGED <<characters_data, num_clusters_arg, similarity_threshold,
                   valid_chars, num_clusters, cluster_centers, iteration, autoVars>>
    /\ UNCHANGED <<storeVars, hpc, convVars, chatVars, batchVars, response, embedding_calls>>

\* ---------------------------------------------------------------- the store

\* A piece of a chat text: kind "initial" (a respondent's initial thoughts),
\* "Conversation:" (the separator line), "said" (turn n of a conversation, by
\* its speaker), "thought" (a final reflection), "user asked" and "replied"
\* (the message and the reply of a direct chat, by the request that wrote them).
Token(kind, by, n) == [kind |-> kind, by |-> by, n |-> n]

Separator == Token("Conversation:", 0, 0)

\* Lines 169-177: the record init_character_cache writes.
InitialRecord(id) ==
    [id |-> id, chat |-> <<>>, short_answer |-> "", passion |-> 0, cluster_id |-> -1]

\* Lines 179-196: None when the store has no hash for the id.
get_character_data(st, char_id) ==
    IF char_id \in DOMAIN st THEN st[char_id] ELSE None

\* Lines 198-213, for one field each (the id has a hash in every call the
\* model makes).
SetChat(st, char_id, chat) ==
    [st EXCEPT ![char_id] = Some([Val(st[char_id]) EXCEPT !.chat = chat])]

SetClusterId(st, char_id, cluster_id) ==
    [st EXCEPT ![char_id] = Some([Val(st[char_id]) EXCEPT !.cluster_id = cluster_id])]

SetAnswer(st, char_id, chat, short_answer, passion) ==
    [st EXCEPT ![char_id] = Some([Val(st[char_id]) EXCEPT !.chat = chat,
                                                          !.short_answer = short_answer,
                                                          !.passion = passion])]

\* Lines 215-228: the stored records from id on, sorted by id.
RECURSIVE StoredFrom(_, _)
StoredFrom(st, id) ==
    IF id > MaxChars THEN <<>>
    ELSE (IF st[id] # None
          THEN <<CharRecord(id, Val(st[id]).short_answer, Val(st[id]).passion)>>
          ELSE <<>>) \o StoredFrom(st, id + 1)

get_all_characters_data(st) == StoredFrom(st, 1)

\* Lines 759-760 and 763-764: update_character_data(char_id, cluster_id=...)
\* for the ids of a list, from position j on.
RECURSIVE SetClusterIds(_, _, _, _)
SetClusterIds(st, ids, j, cluster_id) ==
    IF j > Len(ids) THEN st
    ELSE SetClusterIds(SetClusterId(st, ids[j], cluster_id), ids, j + 1, cluster_id)

\* Lines 748-760: the loop over the clusters, from position k on.
RECURSIVE SaveClusters(_, _, _)
SaveClusters(st, clusters, k) ==
    IF k > Len(clusters) THEN st
    ELSE SaveClusters(SetClusterIds(st, clusters[k].character_ids, 1, clusters[k].id),
                      clusters, k + 1)

\* Lines 735-772: the store, the cluster hashes and the outlier hash after
\* save_cluster_results(cluster_data).
save_cluster_results(st, cluster_data) ==
    [store |-> SetClusterIds(SaveClusters(st, cluster_data.clusters, 1),
                             cluster_data.outliers.character_ids, 1, -1),
     cluster_store |-> Range(cluster_data.clusters),
     outlier_store |-> IF cluster_data.outliers.character_ids # <<>>
                       THEN Some(cluster_data.outliers) ELSE None]

\* ------------------------------------------------------ handle_conversation

\* Turns of a conversation (line 1020).
TurnBudget == 4

\* Longest character_ids list of a conversation request.
MaxParticipants == 3

\* weighted_random_choice without the exclusion of exclude_id.
weighted_random_choice_NoExclusion(chars, exclude_id) ==
    {chars[i] : i \in DOMAIN chars}

\* weighted_random_choice with the exclusion lifted when it leaves nobody.
weighted_random_choice_RepeatWhenAlone(chars, exclude_id) ==
    LET others == {chars[i] : i \in {j \in DOMAIN chars : Some(chars[j].id) # exclude_id}}
    IN  IF others = {} THEN {chars[i] : i \in DOMAIN chars} ELSE others

\* Lines 464-473: the records weighted_random_choice can return; none when
\* every record is excluded (it then returns None).  Every weight
\* passion + 0.1 is positive, so every candidate can be drawn.
weighted_random_choice(chars, exclude_id) ==
    {chars[i] : i \in {j \in DOMAIN chars : Some(chars[j].id) # exclude_id}}

\* An entry of conversation_log: turn n, spoken by character_id.
Turn(character_id, n) == [character_id |-> character_id, n |-> n]

\* Lines 990-994: the stored records of the requested ids, in request order.
RECURSIVE PresentFrom(_, _, _)
PresentFrom(st, ids, j) ==
    IF j > Len(ids) THEN <<>>
    ELSE (IF get_character_data(st, ids[j]) # None
          THEN <<Val(get_character_data(st, ids[j]))>> ELSE <<>>)
         \o PresentFrom(st, ids, j + 1)

\* Lines 1022-1026: the latest comment appended to the chat of the ids from
\* position j on; failed when an id has no record (None['chat'] raises).
RECURSIVE AppendLatest(_, _, _, _)
AppendLatest(st, ids, j, latest) ==
    IF j > Len(ids) THEN [store |-> st, failed |-> FALSE]
    ELSE IF get_character_data(st, ids[j]) = None THEN [store |-> st, failed |-> TRUE]
    ELSE AppendLatest(
             SetChat(st, ids[j],
                     Val(st[ids[j]]).chat
                         \o <<Separator, Token("said", latest.character_id, latest.n)>>),
             ids, j + 1, latest)

\* Lines 1045-1047: conversation_text.
ConversationText(log) ==
    [k \in DOMAIN log |-> Token("said", log[k].character_id, log[k].n)]

\* Line 1057: chat.split('\nConversation:')[0].
RECURSIVE InitialThoughts(_)
InitialThoughts(chat) ==
    IF chat = <<>> \/ Head(chat) = Separator THEN <<>>
    ELSE <<Head(chat)>> \o InitialThoughts(Tail(chat))

\* What get_final_reflection (lines 840-854) can return, when it returns.
ReflectionResults ==
    {[short_answer |-> "", passion |-> 0], [short_answer |-> "walk", passion |-> 8]}

\* Lines 982-997: validation and the lookup of the participants.
ConvStart ==
    /\ hpc = "conv"
    /\ IF character_ids = <<>>
       THEN /\ response' = Response(400, "character_ids required") /\ hpc' = "returned"
            /\ UNCHANGED participants
       ELSE LET found == PresentFrom(store, character_ids, 1)
            IN  IF found = <<>>
                THEN /\ response' = Response(404, "no valid characters") /\ hpc' = "returned"
                     /\ UNCHANGED participants
                ELSE /\ participants' = found
                     /\ hpc' = "first"
                     /\ UNCHANGED response
    /\ UNCHANGED <<clusterVars, storeVars, character_ids, conversation_log,
                   last_speaker_id, comment_count, reflect_i>>
    /\ UNCHANGED <<batchVars, embedding_calls, chatVars>>

\* Lines 1004-1019: the first speaker is drawn and speaks; a failed
\* generation call ends the request with status 500.
ConvFirstTurn ==
    /\ hpc = "first"
    /\ \E speaker \in weighted_random_choice(participants, None), ok \in BOOLEAN :
          IF ok
          THEN /\ conversation_log' = <<Turn(speaker.id, 1)>>
               /\ last_speaker_id' = Some(speaker.id)
               /\ comment_count' = 1
               /\ hpc' = "loop"
               /\ UNCHANGED response
          ELSE /\ response' = Response(500, "generation failed") /\ hpc' = "returned"
               /\ UNCHANGED <<conversation_log, last_speaker_id, comment_count>>
    /\ UNCHANGED <<clusterVars, storeVars, character_ids, participants, reflect_i>>
    /\ UNCHANGED <<batchVars, embedding_calls, chatVars>>

\* Lines 1020-1026: the loop goes on; the latest comment is appended to the
\* chat of every requested id.
ConvAppend ==
    /\ hpc = "loop"
    /\ comment_count < TurnBudget
    /\ LET r == AppendLatest(store, character_ids, 1,
                             conversation_log[Len(conversation_log)])
       IN  /\ store' = r.store
           /\ IF r.failed
              THEN response' = Response(500, "TypeError") /\ hpc' = "returned"
              ELSE hpc' = "select" /\ UNCHANGED response
    /\ UNCHANGED <<clusterVars, cluster_store, outlier_store, conversations, convVars, chatVars>>
    /\ UNCHANGED <<batchVars, embedding_calls>>

\* Lines 1028-1042: the next speaker is drawn among the participants other
\* than the last speaker and replies; with no candidate the loop is left.
ConvSelect ==
    /\ hpc = "select"
    /\ LET candidates == weighted_random_choice(participants, last_speaker_id)
       IN  IF candidates = {}
           THEN /\ hpc' = "reflect"
                /\ reflect_i' = 1
                /\ UNCHANGED <<conversation_log, last_speaker_id, comment_count, response>>
           ELSE \E next_speaker \in candidates, ok \in BOOLEAN :
                   IF ok
                   THEN /\ conversation_log' =
                               Append(conversation_log,
                                      Turn(next_speaker.id, Len(conversation_log) + 1))
                        /\ last_speaker_id' = Some(next_speaker.id)
                        /\ comment_count' = comment_count + 1
                        /\ hpc' = "loop"
                        /\ UNCHANGED <<reflect_i, response>>
                   ELSE /\ response' = Response(500, "generation failed") /\ hpc' = "returned"
                        /\ UNCHANGED <<conversation_log, last_speaker_id, comment_count,
                                       reflect_i>>
    /\ UNCHANGED <<clusterVars, storeVars, character_ids, participants>>
    /\ UNCHANGED <<batchVars, embedding_calls, chatVars>>

\* Line 1020: the turn budget is used up, the loop is left.
ConvLoopExit ==
    /\ hpc = "loop"
    /\ comment_count >= TurnBudget
    /\ hpc' = "reflect"
    /\ reflect_i' = 1
    /\ UNCHANGED <<clusterVars, storeVars, character_ids, participants,
                   conversation_log, last_speaker_id, comment_count, response>>
    /\ UNCHANGED <<batchVars, embedding_calls, chatVars>>

\* Lines 1051-1075: the final reflection of the next requested id is obtained
\* and written with the final chat.
ConvReflect ==
    /\ hpc = "reflect"
    /\ reflect_i <= Len(character_ids)
    /\ LET char_id == character_ids[reflect_i]
           original_data == get_character_data(store, char_id)
       IN  IF original_data = None
           THEN /\ response' = Response(500, "TypeError") /\ hpc' = "returned"
                /\ UNCHANGED <<store, reflect_i>>
           ELSE \/ /\ response' = Response(500, "generation failed") /\ hpc' = "returned"
                   /\ UNCHANGED <<store, reflect_i>>
                \/ \E reflection \in ReflectionResults :
                      /\ store' = SetAnswer(store, char_id,
                                      InitialThoughts(Val(original_data).chat)
                                          \o <<Separator>>
                                          \o ConversationText(conversation_log)
                                          \o <<Token("thought", char_id, 0)>>,
                                      reflection.short_answer, reflection.passion)
                      /\ reflect_i' = reflect_i + 1
                      /\ UNCHANGED <<hpc, response>>
    /\ UNCHANGED <<num_clusters_arg, similarity_threshold, pc, valid_chars,
                   num_clusters, cluster_centers, iteration, cluster_results,
                   autoVars, characters_data, cluster_store, outlier_store,
                   conversations, character_ids, participants, conversation_log,
                   last_speaker_id, comment_count>>
    /\ UNCHANGED <<batchVars, embedding_calls, chatVars>>

\* The loop of line 1051 left after the first requested id.
ReflectionsDone_AfterFirst == reflect_i > 1

\* Lines 1051-1075: the loop over character_ids has run to its end.
ReflectionsDone == reflect_i > Len(character_ids)

\* Lines 1077-1094: all stored records are re-clustered (auto K), the result
\* and the conversation are saved, the request returns.
ConvRecluster ==
    /\ hpc = "reflect"
    /\ ReflectionsDone
    /\ characters_data' = get_all_characters_data(store)
    /\ embedding_calls' = embedding_calls + EmbeddingRequests(get_all_characters_data(store))
    /\ num_clusters_arg' = None
    /\ similarity_threshold' = DefaultThreshold
    /\ \E outcome \in cluster_answers(get_all_characters_data(store), None,
                                      DefaultThreshold) :
          IF outcome.raised
          THEN /\ response' = Response(500, "ValueError")
               /\ UNCHANGED <<storeVars, cluster_results>>
          ELSE LET saved == save_cluster_results(store, outcome.result)
               IN  /\ cluster_results' = Some(outcome.result)
                   /\ store' = saved.store
                   /\ cluster_store' = saved.cluster_store
                   /\ outlier_store' = saved.outlier_store
                   /\ conversations' =
                          Append(conversations,
                                 [character_ids |-> character_ids,
                                  conversation_log |-> ConversationText(conversation_log)])
                   /\ response' = Response(200, "")
    /\ hpc' = "returned"
    /\ UNCHANGED <<pc, valid_chars, num_clusters, cluster_centers, iteration,
                   autoVars, convVars, chatVars>>
    /\ UNCHANGED batchVars

\* ------------------------------------------ requests appending to a chat
\* chat_requests[r] is a request in progress: kind "chat" (chat_with_character)
\* or "conv" (the append loop of handle_conversation), the respondent
\* char_id, the position pc in the handler, the chat text the handler holds
\* in current_chat, the number of appends it has written and the number it
\* makes in all.

\* Most requests in progress at the same time.
MaxRequests == 2

ChatRequest(kind, char_id, rpc, current_chat, written, appends) ==
    [kind |-> kind, char_id |-> char_id, pc |-> rpc, current_chat |-> current_chat,
     written |-> written, appends |-> appends]

\* Line 1200: what chat_with_character appends: the user's message and the
\* reply, of request r.
ChatText(r) == <<Token("user asked", r, 0), Token("replied", r, 0)>>

\* Line 1025: what the conversation of request r appends for its comment n.
CommentText(r, n) == <<Separator, Token("said", r, n)>>

\* Line 1199: current_chat = char_data['chat'], the record read at line 1188.
ChatWriteBase(st, req) == req.current_chat

\* Lines 1187-1195: chat_with_character reads the record of the respondent;
\* it answers 404 when there is none.
ChatRead(r) ==
    /\ chat_requests[r].kind = "chat"
    /\ chat_requests[r].pc = "start"
    /\ LET char_data == get_character_data(store, chat_requests[r].char_id)
       IN  chat_requests' =
               [chat_requests EXCEPT ![r] =
                   IF char_data = None
                   THEN [@ EXCEPT !.pc = "not found"]
                   ELSE [@ EXCEPT !.pc = "generate", !.current_chat = Val(char_data).chat]]
    /\ UNCHANGED <<clusterVars, storeVars, hpc, convVars, batchVars, response,
                   embedding_calls>>

\* Lines 1195-1203: the reply is generated and the chat is written; a failed
\* generation ends the request without a write.
ChatWrite(r) ==
    /\ chat_requests[r].kind = "chat"
    /\ chat_requests[r].pc = "generate"
    /\ \/ /\ chat_requests' = [chat_requests EXCEPT ![r].pc = "failed"]
          /\ UNCHANGED store
       \/ /\ store' = SetChat(store, chat_requests[r].char_id,
                               ChatWriteBase(store, chat_requests[r]) \o ChatText(r))
          /\ chat_requests' = [chat_requests EXCEPT ![r].pc = "done", ![r].written = 1]
    /\ UNCHANGED <<clusterVars, cluster_store, outlier_store, conversations, hpc,
                   convVars, batchVars, response, embedding_calls>>

\* Line 1023: the conversation reads the chat of the respondent.
AppendRead(r) ==
    /\ chat_requests[r].kind = "conv"
    /\ chat_requests[r].pc = "start"
    /\ chat_requests[r].written < chat_requests[r].appends
    /\ chat_requests' =
           [chat_requests EXCEPT ![r].pc = "write",
                                 ![r].current_chat =
                                     Val(get_character_data(store,
                                         chat_requests[r].char_id)).chat]
    /\ UNCHANGED <<clusterVars, storeVars, hpc, convVars, batchVars, response,
                   embedding_calls>>

\* Lines 1024-1026: the conversation writes the chat with its latest comment.
AppendWrite(r) ==
    /\ chat_requests[r].kind = "conv"
    /\ chat_requests[r].pc = "write"
    /\ store' = SetChat(store, chat_requests[r].char_id,
                        chat_requests[r].current_chat
                            \o CommentText(r, chat_requests[r].written + 1))
    /\ chat_requests' =
           [chat_requests EXCEPT ![r].written = @ + 1,
                                 ![r].pc = IF chat_requests[r].written + 1
                                               = chat_requests[r].appends
                                           THEN "done" ELSE "start"]
    /\ UNCHANGED <<clusterVars, cluster_store, outlier_store, conversations, hpc,
                   convVars, batchVars, response, embedding_calls>>

\* -------------------------------------------------------- prompt_characters

\* What consider_question (lines 399-416) can return, when it returns.
QuestionResults ==
    {[short_answer |-> "", passion |-> 0], [short_answer |-> "walk", passion |-> 5]}

\* A worker task of the pool: submitted, answered (consider_question has
\* returned result), done (the record is written), or failed.
Task(stage, result) == [stage |-> stage, result |-> result]

\* process_character writing the result of char_id to every stored record.
process_character_AllRecords(st, char_id, result) ==
    [id \in DOMAIN st |->
        IF st[id] = None THEN None
        ELSE Some([Val(st[id]) EXCEPT !.chat = <<Token("initial", char_id, 0)>>,
                                      !.short_answer = result.short_answer,
                                      !.passion = result.passion])]

\* Lines 437-447: the store after process_character wrote the result.
process_character(st, char_id, result) ==
    SetAnswer(st, char_id, <<Token("initial", char_id, 0)>>,
              result.short_answer, result.passion)

\* Lines 434-435: the task of char_id runs consider_question and looks its
\* character up; without character information (the store then has no
\* record either, lines 1248-1250), or when a query fails, the task fails.
TaskQuery(char_id) ==
    /\ hpc = "tasks"
    /\ tasks[char_id].stage = "submitted"
    /\ IF get_character_data(store, char_id) = None
       THEN tasks' = [tasks EXCEPT ![char_id] = Task("failed", None)]
       ELSE \/ tasks' = [tasks EXCEPT ![char_id] = Task("failed", None)]
            \/ \E result \in QuestionResults :
                  tasks' = [tasks EXCEPT ![char_id] = Task("answered", Some(result))]
    /\ UNCHANGED <<clusterVars, storeVars, hpc, convVars, chatVars, num, total, response, embedding_calls>>

\* Lines 437-449: the task of char_id writes its result and completes.
TaskWrite(char_id) ==
    /\ hpc = "tasks"
    /\ tasks[char_id].stage = "answered"
    /\ store' = process_character(store, char_id, Val(tasks[char_id].result))
    /\ tasks' = [tasks EXCEPT ![char_id].stage = "done"]
    /\ UNCHANGED <<clusterVars, cluster_store, outlier_store, conversations, hpc,
                   convVars, chatVars, num, total, response, embedding_calls>>

\* Lines 890-913, with 956-963: every task has settled; the stored records
\* are clustered with the requested num_clusters and the result is saved.
\* An exception of cluster_answers ends the request with status 500.
BatchCluster ==
    /\ hpc = "tasks"
    /\ \A i \in DOMAIN tasks : tasks[i].stage \in {"done", "failed"}
    /\ characters_data' = get_all_characters_data(store)
    /\ embedding_calls' = embedding_calls + EmbeddingRequests(get_all_characters_data(store))
    /\ \E outcome \in cluster_answers(get_all_characters_data(store),
                                      num_clusters_arg, DefaultThreshold) :
          IF outcome.raised
          THEN /\ response' = Response(500, "ValueError")
               /\ UNCHANGED <<storeVars, cluster_results, total>>
          ELSE LET saved == save_cluster_results(store, outcome.result)
               IN  /\ cluster_results' = Some(outcome.result)
                   /\ store' = saved.store
                   /\ cluster_store' = saved.cluster_store
                   /\ outlier_store' = saved.outlier_store
                   /\ UNCHANGED conversations
                   /\ total' = Some(num)
                   /\ response' = Response(200, "")
    /\ hpc' = "returned"
    /\ UNCHANGED <<num_clusters_arg, similarity_threshold, pc, valid_chars,
                   num_clusters, cluster_centers, iteration, autoVars, convVars, chatVars,
                   num, tasks>>

\* ------------------------------------------------------ states of the store

\* The answer a respondent gave to an earlier question.
AnswerOfId(id) == <<"hike", "walk", "work">>[((id - 1) % 3) + 1]

\* Lines 1245-1250: the store after init_server, when the character files
\* describe the ids of present.
FreshStore(present) ==
    [id \in StoreIds |-> IF id \in present THEN Some(InitialRecord(id)) ELSE None]

\* Lines 438-447: the store after every respondent of present answered an
\* earlier question.
AnsweredStore(present) ==
    [id \in StoreIds |->
        IF id \in present
        THEN Some([InitialRecord(id) EXCEPT !.chat = <<Token("initial", id, 0)>>,
                                            !.short_answer = AnswerOfId(id),
                                            !.passion = PassionOfId(id)])
        ELSE None]

\* The states the store can be in when a request arrives: as init_server left
\* it, or as an earlier question (lines 901-905, auto K) left it.
StoreStates ==
    {[store |-> FreshStore(present), cluster_store |-> {}, outlier_store |-> None]
        : present \in SUBSET StoredIds}
    \cup UNION {{save_cluster_results(AnsweredStore(present), outcome.result)
                    : outcome \in {o \in cluster_answers(
                                            get_all_characters_data(AnsweredStore(present)),
                                            None, DefaultThreshold) : ~o.raised}}
                : present \in SUBSET StoredIds}

\* No call of cluster_answers is in progress.
ClusterIdle ==
    /\ characters_data = <<>>
    /\ num_clusters_arg = None
    /\ similarity_threshold = DefaultThreshold
    /\ pc = "idle"
    /\ valid_chars = <<>>
    /\ num_clusters = 0
    /\ cluster_centers = <<>>
    /\ iteration = 0
    /\ cluster_results = None
    /\ min_clusters = DefaultMinClusters
    /\ max_clusters = DefaultMaxClusters
    /\ auto_k = 0
    /\ best_k = 0
    /\ best_score = Rat(0, 1)
    /\ trial_centers = <<>>
    /\ trial_iteration = 0
    /\ trial_scores = <<>>

\* The character_ids lists of a conversation request.
CharacterIdLists == UNION {[1..n -> StoreIds] : n \in 0..MaxParticipants}

\* --------------------------------------------------------- specification

\* A call of cluster_answers on any list of records, with any requested
\* num_clusters and threshold.
Init ==
    /\ characters_data \in CharLists
    /\ num_clusters_arg \in RequestedK
    /\ similarity_threshold \in Thresholds
    /\ pc = "filter"
    /\ valid_chars = <<>>
    /\ num_clusters = 0
    /\ cluster_centers = <<>>
    /\ iteration = 0
    /\ cluster_results = None
    /\ min_clusters = DefaultMinClusters
    /\ max_clusters = DefaultMaxClusters
    /\ auto_k = 0
    /\ best_k = 0
    /\ best_score = Rat(0, 1)
    /\ trial_centers = <<>>
    /\ trial_iteration = 0
    /\ trial_scores = <<>>
    /\ store = [id \in StoreIds |-> None]
    /\ cluster_store = {}
    /\ outlier_store = None
    /\ conversations = <<>>
    /\ hpc = "none"
    /\ character_ids = <<>>
    /\ participants = <<>>
    /\ conversation_log = <<>>
    /\ last_speaker_id = None
    /\ comment_count = 0
    /\ reflect_i = 0
    /\ num = 0
    /\ tasks = <<>>
    /\ total = None
    /\ embedding_calls = 0
    /\ response = NoResponse
    /\ chat_requests = <<>>

Next ==
    \/ FilterValid
    \/ ChooseRequestedK
    \/ AutoStart
    \/ AutoSample
    \/ AutoRound
    \/ AutoScore
    \/ AutoReturn
    \/ SampleCenters
    \/ SampleRaises
    \/ Round
    \/ Build

Spec == Init /\ [][Next]_vars

\* A conversation request (lines 969-1097) arriving at a server whose store
\* is in any of its states.
InitConv ==
    /\ ClusterIdle
    /\ \E st \in StoreStates :
          /\ store = st.store
          /\ cluster_store = st.cluster_store
          /\ outlier_store = st.outlier_store
    /\ conversations = <<>>
    /\ hpc = "conv"
    /\ character_ids \in CharacterIdLists
    /\ participants = <<>>
    /\ conversation_log = <<>>
    /\ last_speaker_id = None
    /\ comment_count = 0
    /\ reflect_i = 0
    /\ num = 0
    /\ tasks = <<>>
    /\ total = None
    /\ embedding_calls = 0
    /\ response = NoResponse
    /\ chat_requests = <<>>

NextConv ==
    \/ ConvStart
    \/ ConvFirstTurn
    \/ ConvAppend
    \/ ConvSelect
    \/ ConvLoopExit
    \/ ConvReflect
    \/ ConvRecluster

SpecConv == InitConv /\ [][NextConv]_vars

\* A call of prompt_characters (lines 871-913) from handle_question, for the
\* first num ids and any requested num_clusters, at a server whose store is
\* in any of its states; the pool has every task submitted (lines 885-889).
InitBatch ==
    /\ characters_data = <<>>
    /\ num_clusters_arg \in RequestedK
    /\ similarity_threshold = DefaultThreshold
    /\ pc = "idle"
    /\ valid_chars = <<>>
    /\ num_clusters = 0
    /\ cluster_centers = <<>>
    /\ iteration = 0
    /\ cluster_results = None
    /\ min_clusters = DefaultMinClusters
    /\ max_clusters = DefaultMaxClusters
    /\ auto_k = 0
    /\ best_k = 0
    /\ best_score = Rat(0, 1)
    /\ trial_centers = <<>>
    /\ trial_iteration = 0
    /\ trial_scores = <<>>
    /\ \E st \in StoreStates :
          /\ store = st.store
          /\ cluster_store = st.cluster_store
          /\ outlier_store = st.outlier_store
    /\ conversations = <<>>
    /\ hpc = "tasks"
    /\ character_ids = <<>>
    /\ participants = <<>>
    /\ conversation_log = <<>>
    /\ last_speaker_id = None
    /\ comment_count = 0
    /\ reflect_i = 0
    /\ num \in 0..MaxChars
    /\ tasks = [i \in 1..num |-> Task("submitted", None)]
    /\ total = None
    /\ embedding_calls = 0
    /\ response = NoResponse
    /\ chat_requests = <<>>

NextBatch ==
    \/ \E char_id \in 1..num : TaskQuery(char_id)
    \/ \E char_id \in 1..num : TaskWrite(char_id)
    \/ BatchCluster

SpecBatch == InitBatch /\ [][NextBatch]_vars

\* Most respondents of a call of auto_detect_num_clusters on its own.
MaxAutoChars == 6

\* The answers of such a call, in a fixed order.
AutoAnswers == <<"hike", "walk", "work">>

\* The lists of n valid records whose answers follow that order, with the
\* embeddings attached (lines 648-653), as cluster_answers hands them over.
AutoCharLists(n) ==
    {AttachEmbeddings([i \in 1..n |-> CharRecord(i, AutoAnswers[a[i]], PassionOfId(i))],
                      [i \in 1..n |-> i])
        : a \in {f \in [1..n -> DOMAIN AutoAnswers] :
                    \A i, j \in 1..n : i < j => f[i] <= f[j]}}

\* The min_clusters and max_clusters a caller passes (line 552).
MinClustersArgs == 1..3
MaxClustersArgs == {1, 2, DefaultMaxClusters}

\* A call of auto_detect_num_clusters (lines 552-620) on any such list with
\* any such bounds.
InitAuto ==
    /\ \E n \in 0..MaxAutoChars :
          /\ characters_data \in AutoCharLists(n)
          /\ valid_chars = [i \in 1..n |-> i]
    /\ num_clusters_arg = None
    /\ similarity_threshold = DefaultThreshold
    /\ pc = "choose_k"
    /\ num_clusters = 0
    /\ cluster_centers = <<>>
    /\ iteration = 0
    /\ cluster_results = None
    /\ min_clusters \in MinClustersArgs
    /\ max_clusters \in MaxClustersArgs
    /\ auto_k = 0
    /\ best_k = 0
    /\ best_score = Rat(0, 1)
    /\ trial_centers = <<>>
    /\ trial_iteration = 0
    /\ trial_scores = <<>>
    /\ store = [id \in StoreIds |-> None]
    /\ cluster_store = {}
    /\ outlier_store = None
    /\ conversations = <<>>
    /\ hpc = "none"
    /\ character_ids = <<>>
    /\ participants = <<>>
    /\ conversation_log = <<>>
    /\ last_speaker_id = None
    /\ comment_count = 0
    /\ reflect_i = 0
    /\ num = 0
    /\ tasks = <<>>
    /\ total = None
    /\ embedding_calls = 1
    /\ response = NoResponse
    /\ chat_requests = <<>>

NextAuto ==
    \/ AutoStart
    \/ AutoSample
    \/ AutoRound
    \/ AutoScore
    \/ AutoReturn

SpecAuto == InitAuto /\ [][NextAuto]_vars

\* The records of a list with any cluster index, or -1, as temp_cluster.
AssignedLists(chars) ==
    {[p \in DOMAIN chars |-> [chars[p] EXCEPT !.temp_cluster = Some(a[p])]]
        : a \in [DOMAIN chars -> (0 - 1)..(MaxChars - 1)]}

\* Lists of n respondents with any answers of AutoAnswers, embeddings attached.
ScoredCharLists(n) ==
    {AttachEmbeddings([i \in 1..n |-> CharRecord(i, AutoAnswers[a[i]], PassionOfId(i))],
                      [i \in 1..n |-> i])
        : a \in [1..n -> DOMAIN AutoAnswers]}

\* Line 609 of a trial for k = MaxChars, on any list of respondents with any
\* assignment: calculate_silhouette_score (lines 505-550) is about to be
\* called.
InitScore ==
    /\ \E n \in 0..MaxChars :
          /\ characters_data \in UNION {AssignedLists(chars) : chars \in ScoredCharLists(n)}
          /\ valid_chars = [i \in 1..n |-> i]
    /\ num_clusters_arg = None
    /\ similarity_threshold = DefaultThreshold
    /\ pc = "trial"
    /\ num_clusters = 0
    /\ cluster_centers = <<>>
    /\ iteration = 0
    /\ cluster_results = None
    /\ min_clusters = MaxChars
    /\ max_clusters = MaxChars
    /\ auto_k = MaxChars
    /\ best_k = MaxChars
    /\ best_score = Rat(-1, 1)
    /\ trial_centers = <<>>
    /\ trial_iteration = TrialRounds
    /\ trial_scores = <<>>
    /\ store = [id \in StoreIds |-> None]
    /\ cluster_store = {}
    /\ outlier_store = None
    /\ conversations = <<>>
    /\ hpc = "none"
    /\ character_ids = <<>>
    /\ participants = <<>>
    /\ conversation_log = <<>>
    /\ last_speaker_id = None
    /\ comment_count = 0
    /\ reflect_i = 0
    /\ num = 0
    /\ tasks = <<>>
    /\ total = None
    /\ embedding_calls = 1
    /\ response = NoResponse
    /\ chat_requests = <<>>

NextScore == AutoScore

SpecScore == InitScore /\ [][NextScore]_vars

\* The lists of respondents that hold some of the DriftAnswers, each at most
\* once, in their order.
DriftLists ==
    {[j \in DOMAIN ids |-> CharRecord(ids[j], DriftAnswers[ids[j]], PassionOfId(ids[j]))]
        : ids \in {SelectSeq([i \in DOMAIN DriftAnswers |-> i], LAMBDA i : i \in S)
                      : S \in SUBSET DOMAIN DriftAnswers}}

\* The threshold 0.0.
ZeroThreshold == Lit(0, 1)

\* A call cluster_answers(characters_data, num_clusters=1,
\* similarity_threshold=0.0) on any of these lists.
InitDrift ==
    /\ characters_data \in DriftLists
    /\ num_clusters_arg = Some(1)
    /\ similarity_threshold = ZeroThreshold
    /\ pc = "filter"
    /\ valid_chars = <<>>
    /\ num_clusters = 0
    /\ cluster_centers = <<>>
    /\ iteration = 0
    /\ cluster_results = None
    /\ min_clusters = DefaultMinClusters
    /\ max_clusters = DefaultMaxClusters
    /\ auto_k = 0
    /\ best_k = 0
    /\ best_score = Rat(0, 1)
    /\ trial_centers = <<>>
    /\ trial_iteration = 0
    /\ trial_scores = <<>>
    /\ store = [id \in StoreIds |-> None]
    /\ cluster_store = {}
    /\ outlier_store = None
    /\ conversations = <<>>
    /\ hpc = "none"
    /\ character_ids = <<>>
    /\ participants = <<>>
    /\ conversation_log = <<>>
    /\ last_speaker_id = None
    /\ comment_count = 0
    /\ reflect_i = 0
    /\ num = 0
    /\ tasks = <<>>
    /\ total = None
    /\ embedding_calls = 0
    /\ response = NoResponse
    /\ chat_requests = <<>>

NextDrift ==
    \/ FilterValid
    \/ ChooseRequestedK
    \/ SampleCenters
    \/ Round
    \/ Build

SpecDrift == InitDrift /\ [][NextDrift]_vars

\* The requests that can be in progress on respondent 1: direct chats, and
\* conversations that append one comment (a single participant, lines 1029-1030)
\* or TurnBudget - 1 comments.
NewChatRequests ==
    {ChatRequest("chat", 1, "start", <<>>, 0, 1)}
    \cup {ChatRequest("conv", 1, "start", <<>>, 0, a) : a \in {1, TurnBudget - 1}}

\* Up to MaxRequests requests arrive at a server whose store holds
\* respondent 1, fresh or with an earlier answer.
InitChat ==
    /\ ClusterIdle
    /\ store \in {FreshStore({1}), AnsweredStore({1})}
    /\ cluster_store = {}
    /\ outlier_store = None
    /\ conversations = <<>>
    /\ hpc = "none"
    /\ character_ids = <<>>
    /\ participants = <<>>
    /\ conversation_log = <<>>
    /\ last_speaker_id = None
    /\ comment_count = 0
    /\ reflect_i = 0
    /\ num = 0
    /\ tasks = <<>>
    /\ total = None
    /\ embedding_calls = 0
    /\ response = NoResponse
    /\ chat_requests \in UNION {[1..n -> NewChatRequests] : n \in 1..MaxRequests}

NextChat ==
    \/ \E r \in DOMAIN chat_requests : ChatRead(r)
    \/ \E r \in DOMAIN chat_requests : ChatWrite(r)
    \/ \E r \in DOMAIN chat_requests : AppendRead(r)
    \/ \E r \in DOMAIN chat_requests : AppendWrite(r)

SpecChat == InitChat /\ [][NextChat]_vars

\* ------------------------------------------------- properties: clustering

\* The K in use has been settled (requested and clamped, or auto-selected).
KChosen == pc \in {"sample", "round", "done", "raised"}

\* cluster_answers has returned a value.
Returned == pc = "done"

NumValid == Len(valid_chars)

\* Number of positions of seq holding x.
Occurrences(seq, x) == Cardinality({i \in DOMAIN seq : seq[i] = x})

RECURSIVE OccurrencesInClusters(_, _, _)
OccurrencesInClusters(clusters, k, x) ==
    IF k > Len(clusters) THEN 0
    ELSE Occurrences(clusters[k].character_ids, x)
         + OccurrencesInClusters(clusters, k + 1, x)

\* Number of places of the result (the character_ids of a cluster, or of the
\* outliers) where id x appears.
PlacesOf(res, x) ==
    OccurrencesInClusters(res.clusters, 1, x) + Occurrences(res.outliers.character_ids, x)

\* The ids of the records whose answer is non-empty once stripped.
ValidIds == {characters_data[p].id : p \in {q \in DOMAIN characters_data :
                                              IsValid(characters_data[q])}}

\* C1: when cluster_answers returns, every respondent with a non-empty
\* short answer appears in exactly one place of the result: in one cluster's
\* character_ids or in the outliers' character_ids (never both, never none),
\* for any requested K and any threshold.
C1_ExactlyOnePlace ==
    Returned => \A x \in ValidIds : PlacesOf(Val(cluster_results), x) = 1

\* C5: with exactly one valid respondent, cluster_answers returns exactly one
\* cluster holding that respondent alone and no outlier, for every requested K.
C5_SingleRespondent ==
    (NumValid = 1 /\ pc \in {"done", "raised"}) =>
        /\ Returned
        /\ Len(Val(cluster_results).clusters) = 1
        /\ Val(cluster_results).clusters[1].character_ids =
               <<characters_data[valid_chars[1]].id>>
        /\ Val(cluster_results).outliers.character_ids = <<>>

\* All valid respondents hold the same answer.
IdenticalAnswers ==
    \A i, j \in DOMAIN valid_chars :
        characters_data[valid_chars[i]].short_answer =
            characters_data[valid_chars[j]].short_answer

\* auto_detect_num_clusters has returned its K into num_clusters.
AutoReturned == num_clusters_arg = None /\ KChosen /\ NumValid >= 1

\* C6 (as claimed): with identical answers the Auto-K Selector returns K = 1.
C6_IdenticalGivesOne ==
    (AutoReturned /\ IdenticalAnswers) => num_clusters = 1

\* C6 (amended): with identical answers the Auto-K Selector with default
\* bounds returns 1 only for a single respondent; for two or more identical
\* respondents it returns min_clusters = 2.
C6_IdenticalGivesMin ==
    (AutoReturned /\ IdenticalAnswers) =>
        num_clusters = IF NumValid < DefaultMinClusters THEN 1 ELSE DefaultMinClusters

C6_Witness ==
    AutoReturned /\ IdenticalAnswers /\ NumValid >= 2 /\ pc = "done"

\* An explicit K was requested and has been clamped.
RequestedChosen == num_clusters_arg # None /\ KChosen /\ NumValid >= 1

\* C7 (as claimed): every requested K >= n, K = n included, is replaced by
\* max(1, n div 2) before the centers are sampled.
C7_ClampAtOrAbove ==
    (RequestedChosen /\ Val(num_clusters_arg) >= NumValid) =>
        num_clusters = Max(1, NumValid \div 2)

\* C7 (amended): every requested K strictly greater than n is replaced by
\* max(1, n div 2) before the centers are sampled; a requested K = n is kept.
C7_ClampAbove ==
    /\ (RequestedChosen /\ Val(num_clusters_arg) > NumValid) =>
           num_clusters = Max(1, NumValid \div 2)
    /\ (RequestedChosen /\ Val(num_clusters_arg) = NumValid) =>
           num_clusters = NumValid

C7_Witness ==
    RequestedChosen /\ Val(num_clusters_arg) > NumValid /\ pc = "round"

\* C8: with at least one valid respondent, the K in use, and the K reported
\* as num_clusters, satisfies 1 <= K <= number of valid respondents.
C8_KInRange ==
    /\ (KChosen /\ NumValid >= 1) => (1 <= num_clusters /\ num_clusters <= NumValid)
    /\ (Returned /\ NumValid >= 1) =>
           (1 <= Val(cluster_results).num_clusters
            /\ Val(cluster_results).num_clusters <= NumValid)

\* C9: for every integer K passed by the caller and every non-empty set of
\* valid respondents, cluster_answers never raises.
C9_NeverRaises ==
    (num_clusters_arg # None /\ NumValid >= 1) => pc # "raised"

\* The records as they were handed to cluster_answers.
InputRecords ==
    [p \in DOMAIN characters_data |->
        CharRecord(characters_data[p].id, characters_data[p].short_answer,
                   characters_data[p].passion)]

\* The run, step by step, ends as the call taken as a whole can end.
StepsAgreeWithCall ==
    /\ Returned =>
         [raised |-> FALSE, result |-> Val(cluster_results)]
             \in cluster_answers(InputRecords, num_clusters_arg, similarity_threshold)
    /\ pc = "raised" =>
         [raised |-> TRUE, result |-> EmptyResult]
             \in cluster_answers(InputRecords, num_clusters_arg, similarity_threshold)

\* ----------------------------------------------- properties: conversation

\* The distinct participants of the conversation.
ParticipantIds == {participants[i].id : i \in DOMAIN participants}

\* The speakers the next turn can go to.
NextSpeakers == weighted_random_choice(participants, last_speaker_id)

\* C2: in a conversation with more than one participant, whatever speakers
\* are drawn, no two consecutive turns of the transcript have the same
\* speaker id.
C2_NoConsecutiveRepeat ==
    Cardinality(ParticipantIds) > 1 =>
        \A k \in 1..(Len(conversation_log) - 1) :
            conversation_log[k].character_id # conversation_log[k + 1].character_id

\* A conversation of two or more participants that used its whole budget.
C2_Witness ==
    /\ Cardinality(ParticipantIds) > 1
    /\ Len(conversation_log) = TurnBudget

\* C3: the transcript never exceeds 4 turns; a run with at least two distinct
\* participants whose generation calls succeed ends with exactly 4 turns; and
\* the turn loop is left earlier only when no next speaker is eligible.
C3_TurnBudget ==
    /\ Len(conversation_log) <= TurnBudget
    /\ (/\ hpc = "returned"
        /\ response.status \notin {400, 404}
        /\ response.error # "generation failed"
        /\ Cardinality(ParticipantIds) >= 2)
           => Len(conversation_log) = TurnBudget
    /\ (hpc = "reflect" /\ Len(conversation_log) < TurnBudget) => NextSpeakers = {}

\* C4, as stated: with a single participant the exclusion of the previous
\* speaker is lifted, the participant can be drawn again and the conversation
\* goes on with that speaker to the end of the budget.
C4_RepeatAllowed ==
    Cardinality(ParticipantIds) = 1 =>
        /\ hpc = "select" => NextSpeakers # {}
        /\ hpc = "reflect" => Len(conversation_log) = TurnBudget

\* C4, amended: with a single participant the exclusion is not lifted, nobody
\* can be drawn for the second turn and the transcript keeps its single turn.
C4_SingleParticipantStops ==
    Cardinality(ParticipantIds) = 1 =>
        /\ Len(conversation_log) <= 1
        /\ hpc = "select" => NextSpeakers = {}

\* A conversation of one participant that left the turn loop.
C4_Witness ==
    /\ Cardinality(ParticipantIds) = 1
    /\ hpc = "reflect"
    /\ Len(conversation_log) = 1

\* ------------------------------------------------------ properties: batch

\* The record of char_id holds the answer and the passion of result.
Holds(st, char_id, result) ==
    /\ st[char_id] # None
    /\ Val(st[char_id]).short_answer = Val(result).short_answer
    /\ Val(st[char_id]).passion = Val(result).passion

\* C10: in the batch, however the tasks interleave, a task that completes
\* stores its own result and changes no other record; a task that fails
\* changes no record and no other task, and leaves every other task able to
\* go on; and once all tasks have settled the clustering runs over the
\* stored records, which hold the result of every task that completed.
C10_TasksIndependent ==
    [][hpc = "tasks" =>
        /\ \A char_id \in DOMAIN tasks :
              (tasks[char_id].stage = "answered" /\ tasks'[char_id].stage = "done") =>
                  /\ Holds(store', char_id, tasks[char_id].result)
                  /\ \A other \in StoreIds \ {char_id} : store'[other] = store[other]
        /\ \A char_id \in DOMAIN tasks :
              (tasks[char_id].stage # "failed" /\ tasks'[char_id].stage = "failed") =>
                  /\ store' = store
                  /\ \A other \in DOMAIN tasks \ {char_id} :
                        /\ tasks'[other] = tasks[other]
                        /\ tasks[other].stage = "submitted" => ENABLED TaskQuery(other)
                        /\ tasks[other].stage = "answered" => ENABLED TaskWrite(other)
        /\ hpc' = "returned" =>
              /\ characters_data' = get_all_characters_data(store)
              /\ \A char_id \in DOMAIN tasks :
                    tasks[char_id].stage = "done" =>
                        Holds(store, char_id, tasks[char_id].result)
      ]_vars

\* A batch that returned clusters although the query of a stored respondent
\* failed, with another respondent's answer stored and clustered.
C10_Witness ==
    /\ hpc = "returned"
    /\ cluster_results # None
    /\ \E failed \in DOMAIN tasks, other \in DOMAIN tasks :
          /\ tasks[failed].stage = "failed"
          /\ store[failed] # None
          /\ tasks[other].stage = "done"
          /\ Val(tasks[other].result).short_answer = "walk"
          /\ OccurrencesInClusters(Val(cluster_results).clusters, 1, other) = 1

\* The ids of the respondents whose query failed in the batch.
FailedIds == {i \in DOMAIN tasks : tasks[i].stage = "failed"}

\* C11: when the batch returns a clustering, a respondent whose query failed
\* for the question appears in no returned cluster and not in the outliers,
\* also when the store still holds its answer to an earlier question.
C11_FailedSkipped ==
    (hpc = "returned" /\ num > 0 /\ cluster_results # None) =>
        \A i \in FailedIds : PlacesOf(Val(cluster_results), i) = 0

\* The ids of the respondents whose query succeeded in the batch.
AnsweredIds == {i \in DOMAIN tasks : tasks[i].stage = "done"}

\* C12: the total reported by a batch is the number of respondents that
\* answered, which is smaller than the number requested when a query failed.
C12_TotalCountsAnswered ==
    (hpc = "returned" /\ total # None) =>
        /\ Val(total) = Cardinality(AnsweredIds)
        /\ FailedIds # {} => Val(total) < num

\* The requested ids that have no record in the store.
AbsentIds == {character_ids[i] : i \in {j \in DOMAIN character_ids :
                                            get_character_data(store, character_ids[j]) = None}}

\* C13: a conversation with a valid participant besides the one a failure is
\* local to (a requested id without a record, or a participant one of whose
\* generation calls fails) is never aborted: it returns its transcript with
\* status 200.
C13_LocalFailureNoAbort ==
    (/\ hpc = "returned"
     /\ \/ /\ AbsentIds # {}
           /\ Cardinality(ParticipantIds) >= 1
           /\ response.error # "generation failed"
        \/ Cardinality(ParticipantIds) >= 2)
        => (response.status = 200 /\ conversation_log # <<>>)

\* ------------------------------------------- properties: clustering, cont.

\* No record handed to cluster_answers has a non-empty short answer.
NoneValid == ValidPositions(characters_data) = <<>>

\* C14: when no respondent has a non-empty short answer, cluster_answers,
\* for every requested K, returns at once with zero clusters and an empty
\* outlier set of count 0; it does not raise and sends nothing to the
\* embedding provider.
C14_EmptyInput ==
    (NoneValid /\ pc # "filter") =>
        /\ pc = "done"
        /\ Val(cluster_results).clusters = <<>>
        /\ Val(cluster_results).outliers.character_ids = <<>>
        /\ Val(cluster_results).outliers.count = 0
        /\ embedding_calls = 0

\* A run that returned for respondents that all have blank or empty answers,
\* with an explicit K.
C14_Witness ==
    /\ NoneValid
    /\ pc = "done"
    /\ Len(characters_data) >= 2
    /\ num_clusters_arg = Some(2)

\* C15: the clusters returned by cluster_answers are in descending order of
\* member count, and clusters of equal count are in ascending order of id.
C15_SortedByCount ==
    Returned =>
        LET clusters == Val(cluster_results).clusters
        IN  \A i, j \in DOMAIN clusters :
               i < j => \/ clusters[i].count > clusters[j].count
                        \/ /\ clusters[i].count = clusters[j].count
                           /\ clusters[i].id < clusters[j].id

\* A result with two clusters of equal count, and a result whose larger
\* cluster has the larger id and comes first.
C15_Witness ==
    /\ Returned
    /\ LET clusters == Val(cluster_results).clusters
       IN  \/ /\ Len(clusters) = 3
              /\ clusters[1].count = clusters[2].count
           \/ /\ Len(clusters) = 2
              /\ clusters[1].count > clusters[2].count
              /\ clusters[1].id > clusters[2].id

\* The last assignment step put a respondent into a cluster.
AssignedSomeone ==
    \E p \in Range(valid_chars) :
        characters_data[p].temp_cluster \notin {None, Some(-1)}

\* At least one respondent is assigned after every refinement round, and the
\* result returned has at least one cluster.
NeverAllOutliers ==
    /\ (pc = "round" /\ iteration >= 1) => AssignedSomeone
    /\ Returned => Len(Val(cluster_results).clusters) >= 1

\* C16, as stated: with a valid respondent, K >= 1 and a threshold <= 1 the
\* respondents are never all outliers.
C16_AtLeastOneCluster ==
    (KChosen /\ NumValid >= 1 /\ num_clusters >= 1
        /\ SimGE(Lit(1, 1), similarity_threshold)) => NeverAllOutliers

\* C16, amended: with a valid respondent, K >= 1 and a threshold below 1 the
\* respondents are never all outliers.
C16_AtLeastOneClusterBelowOne ==
    (KChosen /\ NumValid >= 1 /\ num_clusters >= 1
        /\ SimGT(Lit(1, 1), similarity_threshold)) => NeverAllOutliers

\* A run with the default threshold that returned a cluster and an outlier.
C16_Witness ==
    /\ Returned
    /\ similarity_threshold = DefaultThreshold
    /\ Len(Val(cluster_results).clusters) >= 1
    /\ Val(cluster_results).outliers.count >= 1


\* C17: a call of auto_detect_num_clusters with n >= min_clusters records
\* clamps max_clusters to the least of max_clusters, n div 3 and 10, raised to
\* min_clusters when below it; every k a trial runs for and the k returned lie
\* between min_clusters and the clamped max_clusters; with n < min_clusters
\* no trial runs and max(1, n div 2) is returned.
C17_ClampedRange ==
    [][LET n == Len(valid_chars)
           least == IF max_clusters <= n \div 3 /\ max_clusters <= 10
                    THEN max_clusters
                    ELSE IF n \div 3 <= 10 THEN n \div 3 ELSE 10
       IN  /\ (pc = "choose_k" /\ pc' # "choose_k" /\ n >= min_clusters) =>
                 /\ pc' = "auto"
                 /\ min_clusters' = min_clusters
                 /\ max_clusters' = IF least < min_clusters THEN min_clusters ELSE least
           /\ (pc = "choose_k" /\ pc' # "choose_k" /\ n < min_clusters) =>
                 /\ pc' = "sample"
                 /\ num_clusters' = IF n \div 2 >= 1 THEN n \div 2 ELSE 1
           /\ pc' = "trial" =>
                 /\ n >= min_clusters
                 /\ min_clusters' <= auto_k' /\ auto_k' <= max_clusters'
           /\ (pc = "auto" /\ pc' = "sample") =>
                 /\ min_clusters <= num_clusters' /\ num_clusters' <= max_clusters
                 /\ max_clusters' = max_clusters
      ]_vars

\* A trial runs for k = 3 on four records: n div 3 = 1 was raised to
\* min_clusters = 3.
C17_Witness ==
    /\ pc = "trial"
    /\ Len(valid_chars) = 4
    /\ min_clusters = 3
    /\ max_clusters = 3
    /\ auto_k = 3
    /\ trial_iteration = TrialRounds


\* C18: the k auto_detect_num_clusters returns is a k it tried, no tried k
\* scored higher, and every tried k with the same score is larger (was tried
\* later).
C18_BestScoreFirstWins ==
    [][(pc = "auto" /\ pc' = "sample") =>
          \E i \in DOMAIN trial_scores :
             /\ trial_scores[i].k = num_clusters'
             /\ \A j \in DOMAIN trial_scores :
                   /\ ~RatGT(trial_scores[j].score, trial_scores[i].score)
                   /\ trial_scores[j].score = trial_scores[i].score =>
                         /\ i <= j
                         /\ trial_scores[i].k <= trial_scores[j].k
      ]_vars

\* Two trials with the same score: the search returned the first k.
C18_Witness ==
    /\ pc = "sample"
    /\ Len(trial_scores) = 2
    /\ trial_scores[1].score = trial_scores[2].score
    /\ num_clusters = trial_scores[1].k

\* The second trial scored higher and its k was returned.
C18_WitnessHigher ==
    /\ pc = "sample"
    /\ Len(trial_scores) = 2
    /\ RatGT(trial_scores[2].score, trial_scores[1].score)
    /\ num_clusters = trial_scores[2].k


\* C19: when the Auto-K Selector chose K and cluster_answers has returned,
\* the number of returned clusters equals the num_clusters it reports.
C19_AutoKGroups ==
    (Returned /\ AutoReturned) =>
        Len(Val(cluster_results).clusters) = Val(cluster_results).num_clusters


\* C20: when handle_conversation re-clusters, the store it reads already
\* holds the final reflection of every requested participant (the chat ends
\* with the participant's thought, the short answer and intensity are a
\* reflection's), and the records handed to cluster_answers are those of all
\* stored respondents with the stored answers, participants or not.
C20_ReclusterAfterReflections ==
    [][(hpc = "reflect" /\ hpc' = "returned" /\ response'.status = 200) =>
          /\ \A i \in DOMAIN character_ids :
                LET char_id == character_ids[i]
                IN  /\ store[char_id] # None
                    /\ Val(store[char_id]).chat # <<>>
                    /\ Val(store[char_id]).chat[Len(Val(store[char_id]).chat)]
                          = Token("thought", char_id, 0)
                    /\ [short_answer |-> Val(store[char_id]).short_answer,
                        passion      |-> Val(store[char_id]).passion]
                          \in ReflectionResults
          /\ {characters_data'[j].id : j \in DOMAIN characters_data'}
                = {id \in StoreIds : store[id] # None}
          /\ \A j \in DOMAIN characters_data' :
                LET rec == Val(store[characters_data'[j].id])
                IN  /\ characters_data'[j].short_answer = rec.short_answer
                    /\ characters_data'[j].passion = rec.passion
      ]_vars

\* A conversation of one participant has re-clustered two stored respondents:
\* the participant with the reflected answer, the other with the stored one.
C20_Witness ==
    /\ hpc = "returned"
    /\ response.status = 200
    /\ Len(character_ids) = 1
    /\ Len(characters_data) = 2
    /\ \E j \in DOMAIN characters_data :
          /\ characters_data[j].id = character_ids[1]
          /\ characters_data[j].short_answer = "walk"
          /\ characters_data[j].passion = 8
    /\ \E j \in DOMAIN characters_data :
          /\ characters_data[j].id # character_ids[1]
          /\ characters_data[j].short_answer = "hike"


\* ------------------------------------------ properties: the returned result

\* The cluster indices that have a member in the final assignment.
OccupiedIndices ==
    {i \in 0..(num_clusters - 1) :
        \E j \in DOMAIN valid_chars :
            characters_data[valid_chars[j]].temp_cluster = Some(i)}

\* C21: a cluster index without a member after the final round is left out
\* of the result, which is returned all the same: the returned clusters are
\* those of the indices that have a member, each has a non-empty
\* character_ids list whose length is its count, and there are at most
\* num_clusters of them.
C21_EmptyClusterOmitted ==
    (Returned /\ NumValid >= 1) =>
        LET clusters == Val(cluster_results).clusters
        IN  /\ {clusters[k].id : k \in DOMAIN clusters} = OccupiedIndices
            /\ Len(clusters) = Cardinality(OccupiedIndices)
            /\ Len(clusters) <= Max(num_clusters, 0)
            /\ \A k \in DOMAIN clusters :
                  /\ clusters[k].character_ids # <<>>
                  /\ clusters[k].count = Len(clusters[k].character_ids)

\* Three indices were in use, one ended without a member and two clusters
\* were returned.
C21_Witness ==
    /\ Returned
    /\ num_clusters = 3
    /\ Cardinality(OccupiedIndices) = 2
    /\ Len(Val(cluster_results).clusters) = 2


\* C22: the representative answer of every returned cluster is the short
\* answer of the cluster's center, and that center is a respondent whose final
\* assignment is this cluster and whose id is in the cluster's character_ids.
C22_RepresentativeIsMember ==
    (Returned /\ NumValid >= 1) =>
        \A k \in DOMAIN Val(cluster_results).clusters :
            LET cluster == Val(cluster_results).clusters[k]
                center == characters_data[cluster_centers[cluster.id + 1]]
            IN  /\ center.temp_cluster = Some(cluster.id)
                /\ \E j \in DOMAIN cluster.character_ids :
                      cluster.character_ids[j] = center.id
                /\ cluster.representative_answer = center.short_answer
                /\ \E p \in DOMAIN characters_data :
                      /\ characters_data[p].temp_cluster = Some(cluster.id)
                      /\ characters_data[p].short_answer = cluster.representative_answer

\* Two clusters with different representatives were returned, one of them
\* with two members or more.
C22_Witness ==
    /\ Returned
    /\ Len(Val(cluster_results).clusters) = 2
    /\ Val(cluster_results).clusters[1].representative_answer
          # Val(cluster_results).clusters[2].representative_answer
    /\ \E k \in 1..2 : Val(cluster_results).clusters[k].count >= 2


\* The cluster index i (0-based) has no member in the assignment held by chars.
IndexEmpty(chars, i) ==
    \A j \in DOMAIN valid_chars : chars[valid_chars[j]].temp_cluster # Some(i)

\* C23: in every refinement round the center of an index that received no
\* member in the round's assignment is the one it had before the round, and
\* the center of an index that received members is one of those members.
C23_EmptyKeepsCenter ==
    [][(pc = "round" /\ iteration' = iteration + 1) =>
          /\ DOMAIN cluster_centers' = DOMAIN cluster_centers
          /\ \A i \in DOMAIN cluster_centers :
                IF IndexEmpty(characters_data', i - 1)
                THEN cluster_centers'[i] = cluster_centers[i]
                ELSE characters_data'[cluster_centers'[i]].temp_cluster = Some(i - 1)
      ]_vars

\* After a round, an index is without members and its center is a respondent
\* that the round assigned to another index (not the first valid respondent).
C23_Witness ==
    /\ pc = "round"
    /\ iteration >= 1
    /\ \E i \in DOMAIN cluster_centers :
          /\ IndexEmpty(characters_data, i - 1)
          /\ characters_data[cluster_centers[i]].temp_cluster # None
          /\ characters_data[cluster_centers[i]].temp_cluster # Some(-1)
          /\ cluster_centers[i] # valid_chars[1]


\* C24: when cluster_answers has returned, the records of the list handed to
\* it are as they were handed over: no record has got an embedding or a
\* temp_cluster field.
C24_InputUnchanged ==
    Returned => characters_data = InputRecords


\* ------------------------------------------------ properties: silhouette

\* The assignment the score was computed from: temp_cluster by position.
AssignmentOf(p) == Val(characters_data[p].temp_cluster)

\* The cluster indices some respondent is assigned to.
UsedClusters == {AssignmentOf(p) : p \in DOMAIN characters_data} \ {-1}

\* The respondents assigned to cluster c.
MembersOf(c) == {p \in DOMAIN characters_data : AssignmentOf(p) = c}

\* calculate_silhouette_score has returned: its value is the logged score.
Scored == pc = "auto" /\ Len(trial_scores) = 1

\* C25: calculate_silhouette_score returns 0 when there is at most one
\* respondent, when all respondents are outliers, when all respondents that
\* are not outliers are in one cluster, and when every cluster has a single
\* member; and in general when every respondent is an outlier, alone in its
\* cluster or without another cluster.
C25_NoQualifierGivesZero ==
    Scored =>
        /\ Len(characters_data) <= 1 => trial_scores[1].score = Rat(0, 1)
        /\ UsedClusters = {} => trial_scores[1].score = Rat(0, 1)
        /\ Cardinality(UsedClusters) = 1 => trial_scores[1].score = Rat(0, 1)
        /\ (\A c \in UsedClusters : Cardinality(MembersOf(c)) = 1) =>
               trial_scores[1].score = Rat(0, 1)
        /\ (\A p \in DOMAIN characters_data :
               \/ AssignmentOf(p) = -1
               \/ MembersOf(AssignmentOf(p)) = {p}
               \/ UsedClusters = {AssignmentOf(p)}) =>
               trial_scores[1].score = Rat(0, 1)

\* Three respondents with different answers, each alone in a cluster of its
\* own, were scored.
C25_Witness ==
    /\ Scored
    /\ Len(characters_data) = 3
    /\ Cardinality(UsedClusters) = 3
    /\ characters_data[1].short_answer # characters_data[2].short_answer
    /\ trial_scores[1].score = Rat(0, 1)


\* The stored chat of respondent char_id holds every turn of the transcript.
ContextHasTranscript(char_id) ==
    \A k \in DOMAIN conversation_log :
        \E j \in DOMAIN Val(store[char_id]).chat :
            Val(store[char_id]).chat[j] =
                Token("said", conversation_log[k].character_id, conversation_log[k].n)

\* C26: when a reply is generated for the next speaker, and when the final
\* reflection of a participant is generated, the chat stored for that
\* participant (the context the generation call reads) holds every turn of
\* the transcript so far, the latest one included.
C26_ContextComplete ==
    [][/\ (hpc = "select" /\ hpc' = "loop") =>
              ContextHasTranscript(Val(last_speaker_id'))
       /\ (hpc = "reflect" /\ reflect_i' = reflect_i + 1) =>
              ContextHasTranscript(character_ids[reflect_i])
      ]_vars

\* The part of C26 about reply turns alone.
RepliesHaveContext ==
    [][(hpc = "select" /\ hpc' = "loop") =>
              ContextHasTranscript(Val(last_speaker_id'))
      ]_vars


\* ------------------------------------------- properties: trial clustering

\* The centers of a trial have just been drawn.
TrialStarts == pc = "trial" /\ trial_iteration = 0

\* The records as the trial leaves them, and as the final engine has them
\* after its third round from the same records, centers and threshold; the
\* records differ in temp_cluster only.
TrialAssignment ==
    TrialRoundsFrom([chars |-> characters_data, centers |-> trial_centers],
                    valid_chars, TrialRounds).chars

EngineAssignment(threshold) ==
    FinalRoundsFrom([chars |-> characters_data, centers |-> trial_centers],
                    valid_chars, threshold, TrialRounds).chars

\* C27: from the same respondents, the same K and the same initial centers,
\* the trial clustering of the Auto-K Selector ends with the assignment the
\* final engine has after its third round under the similarity threshold
\* given to cluster_answers.
C27_TrialIsFinalEngine ==
    TrialStarts => TrialAssignment = EngineAssignment(similarity_threshold)

\* The same comparison with the final engine run at the default threshold.
TrialIsEngineAtDefault ==
    TrialStarts => TrialAssignment = EngineAssignment(DefaultThreshold)


\* --------------------------------------------- properties: outlier rule

\* The similarity of the respondents at positions p and q.
SimilarityOf(p, q) ==
    cosine_similarity(Val(characters_data[p].embedding), Val(characters_data[q].embedding))

\* The positions of the centers of the returned clusters: the respondents
\* whose answers are the representative answers.
ReturnedCenters ==
    {cluster_centers[Val(cluster_results).clusters[k].id + 1]
        : k \in DOMAIN Val(cluster_results).clusters}

\* The best similarity of respondent p to the returned centers is below the
\* threshold (the best similarity to no center at all is -1).
BestBelowThreshold(p) ==
    /\ ~SimGE(Lit(-1, 1), similarity_threshold)
    /\ \A c \in ReturnedCenters : ~SimGE(SimilarityOf(p, c), similarity_threshold)

\* C28: in the returned result a valid respondent is among the outliers
\* exactly when its best similarity to the centers of the returned clusters
\* is below the threshold, and every member of a cluster has a similarity of
\* at least the threshold to the center of its cluster.
C28_OutlierIffBelow ==
    (Returned /\ NumValid >= 1) =>
        \A j \in DOMAIN valid_chars :
            LET p == valid_chars[j]
                res == Val(cluster_results)
            IN  /\ (\E i \in DOMAIN res.outliers.character_ids :
                       res.outliers.character_ids[i] = characters_data[p].id)
                      <=> BestBelowThreshold(p)
                /\ \A k \in DOMAIN res.clusters :
                      (\E i \in DOMAIN res.clusters[k].character_ids :
                          res.clusters[k].character_ids[i] = characters_data[p].id)
                      => SimGE(SimilarityOf(p, cluster_centers[res.clusters[k].id + 1]),
                               similarity_threshold)


\* ------------------------------------------------- properties: the store

\* The id is in the character_ids of the stored cluster summary c.
ListedIn(id, c) == \E i \in DOMAIN c.character_ids : c.character_ids[i] = id

\* C29: once a conversation run has saved its cluster results, every stored
\* respondent has the cluster_id of the stored cluster that lists its id,
\* and -1 when no stored cluster lists it, whether or not the run clustered
\* the respondent.
C29_StoreConsistent ==
    (hpc = "returned" /\ response.status = 200) =>
        \A id \in StoreIds :
            store[id] # None =>
                /\ \A c \in cluster_store :
                      ListedIn(id, c) <=> Val(store[id]).cluster_id = c.id
                /\ (\A c \in cluster_store : ~ListedIn(id, c)) =>
                      Val(store[id]).cluster_id = -1


\* ------------------------------------------ properties: concurrent appends

\* The stored chat of the respondent of request r holds the token tok.
ChatHolds(r, tok) ==
    \E j \in DOMAIN Val(store[chat_requests[r].char_id]).chat :
        Val(store[chat_requests[r].char_id]).chat[j] = tok

\* Every request has ended.
RequestsEnded ==
    \A r \in DOMAIN chat_requests : chat_requests[r].pc \in {"done", "failed", "not found"}

\* One of the requests is a conversation run.
ConversationAmongRequests ==
    \E r \in DOMAIN chat_requests : chat_requests[r].kind = "conv"

\* C30: when a conversation run and a direct chat request, or two
\* conversation runs, on the same respondent have interleaved and ended, the
\* stored chat of the respondent holds what each of them appended: the
\* message and reply of every direct chat that wrote, and every comment of
\* every conversation.
C30_NoLostAppend ==
    (RequestsEnded /\ ConversationAmongRequests) =>
        \A r \in DOMAIN chat_requests :
            /\ (chat_requests[r].kind = "chat" /\ chat_requests[r].written = 1) =>
                  \A i \in DOMAIN ChatText(r) : ChatHolds(r, ChatText(r)[i])
            /\ chat_requests[r].kind = "conv" =>
                  \A n \in 1..chat_requests[r].written :
                      ChatHolds(r, Token("said", r, n))

\* The same for a request that runs alone.
AloneNoLostAppend ==
    Len(chat_requests) = 1 => C30_NoLostAppend

====
